---- MODULE Spec2Model ----
(***************************************************************************)
(* Model of the orchestration and recovery engine of the ERO automation    *)
(* (src/src/main.js, first WebAutomationSystem/main of the file): one      *)
(* cycle of processAutomation with its per-depot session (processDepot,    *)
(* processLogin, processReleaseOrder), the reconciliation after a closed   *)
(* surface (markRemainingAsFailed) and the result ledger.                  *)
(*                                                                         *)
(* JavaScript values are modelled as tagged records:                       *)
(*   [t |-> "s", x |-> str]   a string                                     *)
(*   [t |-> "n", x |-> int]   a number                                     *)
(*   [t |-> "u"]              undefined (the field is absent)              *)
(*   [t |-> "w", v |-> val]   an object with a key 'v' ({v: val})          *)
(*   [t |-> "null"]           null                                         *)
(*   [t |-> "a", x |-> seq]   an array                                     *)
(*   [t |-> "o", data |-> v]  a response body with its data field          *)
(* fetchDataWithRetry (SpecFetch), main() with its intervals and its       *)
(* SIGINT handler (SpecMain), groupByDepot (SpecGroup), checkAndHandlePopup *)
(* (SpecPopup) and ApiService.getReleaseOrderData under fetchDataWithRetry *)
(* (SpecApi), the click of ActionExecutor.executeAction (SpecClick), the   *)
(* pause after an action (SpecPace), the file-change entry                 *)
(* processRealtimeData (SpecWatch) and a cycle that follows an earlier one *)
(* (SpecLater) are modelled as specifications of their own.                *)
(* Timestamps of the records are left out: no decision reads them.         *)
(***************************************************************************)
EXTENDS Integers, Sequences, FiniteSets, TLC

VARIABLES
  testDataArr,   \* result of fetchDataWithRetry: [has, data]
  accounts,      \* config/accounts.json: the depot keys that have an Account
  grouped,       \* groupByDepot's result: [keys, items]
  groupedFile,   \* whether the grouped snapshot was written
  successList,   \* in-memory success list of the cycle
  successFile,   \* success snapshot file: [exists, total, data]
  failedFile,    \* failed ledger file: [exists, total, data]
  summary,       \* totals printed by printResultSummary
  pc,            \* position of processAutomation / processDepot
  di,            \* index of the depot of the for..in loop (into grouped.keys)
  ii,            \* index of the item of the depot's item loop
  ai,            \* index of the action in siteConfig.actions
  actionFailed,  \* processReleaseOrder's local
  errorReason,   \* processReleaseOrder's local
  err,           \* message of the exception caught at processAutomation's catch
  ctxOpen,       \* depot indexes whose browsing context is open
  surface,       \* page/context of the current depot: "none", "open", "closed"
  browserUp,     \* the browser engine is alive
  ioFailed,      \* history: some ledger operation failed in this cycle
  visited,       \* history: depot indexes processDepot was called for
  attempted,     \* history: <<depot index, item index>> of processReleaseOrder calls
  cur,           \* history: what happened to the item last processed
  pageOps,       \* history: depot indexes for which a page operation ran
  aborted,       \* history: depot index caught as surface-closed (0: none)
  closedIn,      \* history: session phase and depot when the surface closed
  recon,         \* history: what markRemainingAsFailed found and appended
  loginSeen,     \* history: the login actions run for the depot, with the popup seen
  apiResponses,  \* what apiService.getReleaseOrderData returns, call by call
  maxRetries,    \* fetchDataWithRetry's parameter
  attempt,       \* fetchDataWithRetry's loop counter
  fetched,       \* fetchDataWithRetry's local testDataArr
  fpc,           \* position of fetchDataWithRetry
  calls,         \* history: number of getReleaseOrderData calls
  delays,        \* history: number of inter-attempt delays
  mpc,           \* position of main()
  exitCode,      \* process.exit: "none", "0", "1"
  cycles,        \* the executions of processAutomation, in start order
  mainInterval,  \* the main interval of setupAutoRun is armed
  countdownInterval, \* the countdown interval of setupAutoRun is armed
  timeRemaining, \* setupAutoRun's countdown, in seconds
  sig,           \* position of the SIGINT handler: "none", "closing", "exit"
  browser,       \* browserManager.browser: "null", "up", "closed", "gone"
  contexts,      \* browserManager.contexts: the site names tracked
  openContexts,  \* the browsing contexts that are open
  watching,      \* the data watcher is watching
  popups,        \* the page's popups: "absent", "hidden", "block", "gone"
  ppc,           \* position around checkAndHandlePopup: "act", "check"
  verdict,       \* what the last checkAndHandlePopup returned
  dismissed,     \* history: the popups the last checkAndHandlePopup closed
  token,         \* ApiService: token and reqtime are set
  apc,           \* position of getReleaseOrderData
  depth,         \* depth of getReleaseOrderData's recursion
  requests,      \* history: data requests sent by the current call
  outcome,       \* history: how the last request of the current call ended
  elements,      \* the elements page.$$(selector) returns: their field texts
  matchValue,    \* data[matchField.value]
  cpc,           \* position of executeAction's click: "idle", "click", "clicked", "thrown"
  target,        \* index of the element clicked (0: none)
  pacer,         \* the loop that runs the action: "login", "roData", "executeActions"
  actionDelay,   \* action.delay
  waited,        \* milliseconds waited after the action (-1: the action has not run)
  isRunning,     \* WebAutomationSystem.isRunning
  rpc,           \* position of each execution of handleDataChange / processRealtimeData
  processed      \* history: the sites each execution has called processSite for

vars == <<testDataArr, accounts, grouped, groupedFile, successList, successFile,
          failedFile, summary, pc, di, ii, ai, actionFailed, errorReason, err,
          ctxOpen, surface, browserUp, ioFailed, visited, attempted,
          cur, pageOps, aborted, closedIn, recon, loginSeen,
          apiResponses, maxRetries, attempt, fetched, fpc, calls, delays,
          mpc, exitCode, cycles, mainInterval, countdownInterval, timeRemaining,
          sig, browser, contexts, openContexts, watching,
          popups, ppc, verdict, dismissed, token, apc, depth, requests, outcome,
          elements, matchValue, cpc, target, pacer, actionDelay, waited,
          isRunning, rpc, processed>>

cycleVars == <<testDataArr, accounts, grouped, groupedFile, successList, successFile,
               failedFile, summary, pc, di, ii, ai, actionFailed, errorReason, err,
               ctxOpen, surface, browserUp, ioFailed, visited, attempted,
               cur, pageOps, aborted, closedIn, recon, loginSeen>>
fetchVars == <<apiResponses, maxRetries, attempt, fetched, fpc, calls, delays>>
popupVars == <<popups, ppc, verdict, dismissed>>
apiVars == <<token, apc, depth, requests, outcome>>
clickVars == <<elements, matchValue, cpc, target>>
paceVars == <<pacer, actionDelay, waited>>
watchVars == <<isRunning, rpc, processed>>
auxVars == <<clickVars, paceVars, watchVars>>
timers == <<mainInterval, countdownInterval, timeRemaining>>
mainVars == <<mpc, exitCode, cycles, mainInterval, countdownInterval, timeRemaining,
              sig, browser, contexts, openContexts, watching>>

(***************************************************************************)
(* Bounds of the inputs.                                                   *)
(***************************************************************************)
MaxItems == 2
MaxAttempts == 3
MaxCycles == 3
MaxList == 3
MaxDepth == 3
MaxElements == 3
MaxEvents == 3
RandomSteps == 100

Depots == {"D1", "D2"}
RONumbers == {"RO1"}

(***************************************************************************)
(* JavaScript values.                                                      *)
(***************************************************************************)
Str(s) == [t |-> "s", x |-> s]
Num(n) == [t |-> "n", x |-> n]
Undef == [t |-> "u"]
Wrap(val) == [t |-> "w", v |-> val]
Null == [t |-> "null"]
Arr(seq) == [t |-> "a", x |-> seq]
Body(val) == [t |-> "o", data |-> val]

\* JavaScript truthiness: objects and arrays (also the empty array) are
\* truthy; "", 0, null and undefined are falsy.
Truthy(val) ==
  CASE val.t \in {"w", "o", "a"} -> TRUE
    [] val.t = "s" -> val.x # ""
    [] val.t = "n" -> val.x # 0
    [] OTHER -> FALSE

\* a || dflt
OrElse(val, dflt) == IF Truthy(val) THEN val ELSE dflt

\* The property key a value turns into (grouped[depot]).
KeyOf(val) ==
  CASE val.t = "s" -> val.x
    [] val.t = "w" -> "[object Object]"
    [] OTHER -> "undefined"

(***************************************************************************)
(* Data Grouper.                                                           *)
(***************************************************************************)
\* A variant of the unwrap that requires a truthy 'v'.
normalizeFieldTruthyOnly(val) == IF val.t = "w" /\ Truthy(val.v) THEN val.v ELSE val

\* item[key] && typeof item[key] === 'object' && 'v' in item[key]
normalizeField(val) == IF val.t = "w" THEN val.v ELSE val

normalizeDataItem(item) == [k \in DOMAIN item |-> normalizeField(item[k])]

\* A variant of the grouping loop without the test for a missing DEPOT.
RECURSIVE groupFromNoSkip(_, _, _)
groupFromNoSkip(dataArray, i, g) ==
  IF i > Len(dataArray) THEN g
  ELSE LET normalizedItem == normalizeDataItem(dataArray[i])
           k == KeyOf(normalizedItem.DEPOT)
           known == \E j \in 1..Len(g.keys) : g.keys[j] = k
           g2 == IF known
                 THEN [g EXCEPT !.items[k] = Append(@, normalizedItem)]
                 ELSE [keys |-> Append(g.keys, k),
                       items |-> [d \in DOMAIN g.items \cup {k} |->
                                   IF d = k THEN <<normalizedItem>> ELSE g.items[d]]]
       IN groupFromNoSkip(dataArray, i + 1, g2)

\* A variant of the grouping loop that puts an item in front of its group.
RECURSIVE groupFromUnshift(_, _, _)
groupFromUnshift(dataArray, i, g) ==
  IF i > Len(dataArray) THEN g
  ELSE LET normalizedItem == normalizeDataItem(dataArray[i])
           depot == normalizedItem.DEPOT
       IN IF ~Truthy(depot) THEN groupFromUnshift(dataArray, i + 1, g)
          ELSE LET k == KeyOf(depot)
                   known == \E j \in 1..Len(g.keys) : g.keys[j] = k
                   g2 == IF known
                         THEN [g EXCEPT !.items[k] = <<normalizedItem>> \o @]
                         ELSE [keys |-> Append(g.keys, k),
                               items |-> [d \in DOMAIN g.items \cup {k} |->
                                           IF d = k THEN <<normalizedItem>>
                                           ELSE g.items[d]]]
               IN groupFromUnshift(dataArray, i + 1, g2)

RECURSIVE groupFrom(_, _, _)
groupFrom(dataArray, i, g) ==
  IF i > Len(dataArray) THEN g
  ELSE LET normalizedItem == normalizeDataItem(dataArray[i])
           depot == normalizedItem.DEPOT
       IN IF ~Truthy(depot) THEN groupFrom(dataArray, i + 1, g)
          ELSE LET k == KeyOf(depot)
                   known == \E j \in 1..Len(g.keys) : g.keys[j] = k
                   g2 == IF known
                         THEN [g EXCEPT !.items[k] = Append(@, normalizedItem)]
                         ELSE [keys |-> Append(g.keys, k),
                               items |-> [d \in DOMAIN g.items \cup {k} |->
                                           IF d = k THEN <<normalizedItem>>
                                           ELSE g.items[d]]]
               IN groupFrom(dataArray, i + 1, g2)

NoGroups == [keys |-> <<>>, items |-> [d \in {} |-> <<>>]]

groupByDepot(dataArray) == groupFrom(dataArray, 1, NoGroups)

(***************************************************************************)
(* Static configuration (config/sites.json, sites[0].actions): the         *)
(* typeAction of each action, in configuration order.                      *)
(***************************************************************************)
SiteActions == <<"login", "roData", "roData">>

\* The first index >= from of an action of the given typeAction (the loops
\* of processLogin and processReleaseOrder 'continue' over the others);
\* Len + 1 when there is none.
RECURSIVE NextAction(_, _)
NextAction(kind, from) ==
  IF from > Len(SiteActions) THEN from
  ELSE IF SiteActions[from] = kind THEN from
  ELSE NextAction(kind, from + 1)

(***************************************************************************)
(* Exceptions and popups.                                                  *)
\* The condition of each action, as the data field it tests
\* ("data.releaseOrderNumber"); "" for an action without condition.
SiteConditions == <<"", "", "releaseOrderNumber">>

\* ActionExecutor.evaluateCondition: new Function('data', `return ${condition}`)
evaluateCondition(condition, data) == data[condition]

\* executeActions' gate: action.condition && !evaluateCondition(condition, data)
Gated(j, data) ==
  SiteConditions[j] # "" /\ ~Truthy(evaluateCondition(SiteConditions[j], data))

(***************************************************************************)
TargetClosedMsg == "Target page, context or browser has been closed"
SelectorNotFoundMsg == "Selector not found: #selector"
NavigationMsg == "page.goto: net::ERR_CONNECTION_REFUSED"

\* error.message.includes(...) of one of the three closed-surface texts
IsClosedError(msg) == msg \in {TargetClosedMsg, "Target closed", "Browser has been closed"}

\* What executeAction throws on a surface that is closed: page.$ is caught
\* and the action reports the selector as not found, or a later call of the
\* action rejects with the driver's closed-target error.
ClosedThrows == {TargetClosedMsg, SelectorNotFoundMsg}

\* What executeAction throws on an open surface when the action fails.
OpenThrows == {SelectorNotFoundMsg}

\* Message texts a popup of the site can show.
PopupMessages == {"Container is on hold"}

\* A variant of the classifier that looks at the error popup first.
checkAndHandlePopupErrorFirst(visible) ==
  IF "error" \in visible THEN "error"
  ELSE IF "success" \in visible THEN "success"
  ELSE IF "warning" \in visible THEN "warning"
  ELSE "none"

\* checkAndHandlePopup: the classification of the first visible popup in
\* the order success, error, warning; null ("none") when none is visible.
\* The message text is logged and is not part of the result.
checkAndHandlePopup(visible) ==
  IF "success" \in visible THEN "success"
  ELSE IF "error" \in visible THEN "error"
  ELSE IF "warning" \in visible THEN "warning"
  ELSE "none"

\* The sets of popups the site may show after an action.
PopupStates == {{}, {"success"}, {"error"}, {"warning"}, {"success", "error"}}

(***************************************************************************)
(* Result Ledger.                                                          *)
(***************************************************************************)
NoFile == [exists |-> FALSE, total |-> 0, data |-> <<>>]
EmptyFile == [exists |-> TRUE, total |-> 0, data |-> <<>>]

\* A variant of appendFailedToFile that leaves the running total as read.
appendFailedToFileStaleTotal(file, failedItem, fault) ==
  IF fault THEN file
  ELSE [exists |-> TRUE, total |-> file.total, data |-> Append(file.data, failedItem)]

\* appendFailedToFile: read, push, total = length, write; an I/O failure is
\* caught and logged, and the file is left as it was.
appendFailedToFile(file, failedItem, fault) ==
  IF fault THEN file
  ELSE LET content == Append(file.data, failedItem)
       IN [exists |-> TRUE, total |-> Len(content), data |-> content]

RECURSIVE appendAllFailed(_, _, _)
appendAllFailed(file, items, fault) ==
  IF items = <<>> THEN file
  ELSE appendAllFailed(appendFailedToFile(file, Head(items), fault), Tail(items), fault)

\* getFailedROs: the release-order numbers of the ledger, [] on an I/O failure
getFailedROs(file, fault) ==
  IF fault THEN {}
  ELSE {file.data[k].releaseOrderNumber : k \in 1..Len(file.data)}

saveSuccessToFile(list) == [exists |-> TRUE, total |-> Len(list), data |-> list]

roNumberOf(item) == OrElse(item.releaseOrderNumber, Str("N/A"))
roIDOf(item) == OrElse(item.ID, Str("-1"))

FailedItem(depot, item, reason) ==
  [depot |-> depot, releaseOrderID |-> roIDOf(item),
   releaseOrderNumber |-> roNumberOf(item), reason |-> reason]

SuccessItem(depot, item) ==
  [depot |-> depot, releaseOrderID |-> roIDOf(item),
   releaseOrderNumber |-> roNumberOf(item)]

NoAccountReason == "No account configured for depot"
SurfaceClosedReason == "Browser/Page closed unexpectedly"
DepotErrorReason(msg) == "Depot processing error: " \o msg
PopupReason(checkpopup) == "Popup " \o checkpopup \o " detected"
\* A variant that drops the exception's message.
ExceptionReasonGeneric(msg) == "Action execution failed"

\* error.message || 'Action execution failed'
ExceptionReason(msg) == IF msg = "" THEN "Action execution failed" ELSE msg

SeqMap(Op(_), s) == [k \in 1..Len(s) |-> Op(s[k])]

\* A variant that records only the first item of the depot.
NoAccountRecordsFirstOnly(depot, items) ==
  [k \in 1..(IF Len(items) = 0 THEN 0 ELSE 1) |->
     FailedItem(depot, items[k], NoAccountReason)]

\* The records the missing-account branch of processDepot appends.
NoAccountRecords(depot, items) ==
  [k \in 1..Len(items) |-> FailedItem(depot, items[k], NoAccountReason)]

\* The records the generic catch of processAutomation appends: one for
\* every item of the depot.
DepotErrorRecords(depot, items, msg) ==
  [k \in 1..Len(items) |-> FailedItem(depot, items[k], DepotErrorReason(msg))]

\* markRemainingAsFailed: the items of the depot whose release-order number
\* is neither in the success list nor in the failed ledger.
RemainingItems(items, list, file, fault) ==
  LET processedROs == {list[k].releaseOrderNumber : k \in 1..Len(list)}
                        \cup getFailedROs(file, fault)
  IN SelectSeq(items, LAMBDA item : roNumberOf(item) \notin processedROs)

markRemainingAsFailed(depot, items, list, file, fault) ==
  LET rest == RemainingItems(items, list, file, fault)
  IN appendAllFailed(file,
       [k \in 1..Len(rest) |-> FailedItem(depot, rest[k], SurfaceClosedReason)],
       fault)

(***************************************************************************)
(* Inputs of a cycle: the fetched records and the account registry.        *)
(***************************************************************************)
\* The API delivers every field in the wrapped form {v: value}; a record
\* may lack its DEPOT or its releaseOrderNumber. ID is the record's key.
RawItem(id, depot, ro) ==
  [DEPOT |-> IF depot = "" THEN Undef ELSE Wrap(Str(depot)),
   ID |-> Wrap(Num(id)),
   releaseOrderNumber |-> IF ro = "" THEN Undef ELSE Wrap(Str(ro))]

DataArrays ==
  UNION {{[k \in 1..n |-> RawItem(k, ds[k], rs[k])] :
            ds \in [1..n -> Depots \cup {""}], rs \in [1..n -> RONumbers \cup {""}]} :
         n \in 0..MaxItems}

NoItem == [d |-> 0, i |-> 0, ran |-> <<>>, verdict |-> "none", at |-> 0, msg |-> ""]
NotClosed == [phase |-> "none", d |-> 0, undet |-> {}]
NoRecon == [d |-> 0, before |-> <<>>, added |-> <<>>]
NoSummary == [printed |-> FALSE, success |-> 0, failed |-> 0, total |-> 0]

\* fetchDataWithRetry is not running.
FetchIdle ==
  /\ apiResponses = <<>>
  /\ maxRetries = 0
  /\ attempt = 0
  /\ fetched = Null
  /\ fpc = "idle"
  /\ calls = 0
  /\ delays = 0

\* main() is not running.
MainIdle ==
  /\ mpc = "idle"
  /\ exitCode = "none"
  /\ cycles = <<>>
  /\ mainInterval = FALSE
  /\ countdownInterval = FALSE
  /\ timeRemaining = 0
  /\ sig = "none"
  /\ browser = "null"
  /\ contexts = {}
  /\ openContexts = {}
  /\ watching = FALSE

PopupKinds == {"success", "error", "warning"}

\* checkAndHandlePopup is not running.
PopupIdle ==
  /\ popups = [k \in PopupKinds |-> "absent"]
  /\ ppc = "idle"
  /\ verdict = "unchecked"
  /\ dismissed = {}

\* The API client is not running.
ApiIdle ==
  /\ token = FALSE
  /\ apc = "idle"
  /\ depth = 0
  /\ requests = 0
  /\ outcome = "none"

\* No click is being executed.
ClickIdle ==
  /\ elements = <<>>
  /\ matchValue = Undef
  /\ cpc = "idle"
  /\ target = 0

\* No action is being paced.
PaceIdle ==
  /\ pacer = "none"
  /\ actionDelay = Undef
  /\ waited = -1

\* No change of the data file has been seen.
WatchIdle ==
  /\ isRunning = FALSE
  /\ rpc = [e \in 1..MaxEvents |-> [p |-> "off", k |-> 0]]
  /\ processed = [e \in 1..MaxEvents |-> <<>>]

AuxIdle == ClickIdle /\ PaceIdle /\ WatchIdle

Init ==
  /\ FetchIdle
  /\ MainIdle
  /\ PopupIdle
  /\ ApiIdle
  /\ AuxIdle
  /\ testDataArr \in {[has |-> FALSE, data |-> <<>>]}
                       \cup {[has |-> TRUE, data |-> a] : a \in DataArrays}
  /\ accounts \in SUBSET Depots
  /\ grouped = NoGroups
  /\ groupedFile = FALSE
  /\ successList = <<>>
  /\ successFile = NoFile
  /\ failedFile = NoFile
  /\ summary = NoSummary
  /\ pc = "start"
  /\ di = 0
  /\ ii = 0
  /\ ai = 0
  /\ actionFailed = FALSE
  /\ errorReason = ""
  /\ err = ""
  /\ ctxOpen = {}
  /\ surface = "none"
  /\ browserUp = TRUE
  /\ ioFailed = FALSE
  /\ visited = <<>>
  /\ attempted = <<>>
  /\ cur = NoItem
  /\ pageOps = {}
  /\ aborted = 0
  /\ closedIn = NotClosed
  /\ recon = NoRecon
  /\ loginSeen = <<>>

(***************************************************************************)
(* Helpers over the state.                                                 *)
(***************************************************************************)
depotKey == grouped.keys[di]
depotItems == grouped.items[depotKey]

InSuccess(depot, item) ==
  \E k \in 1..Len(successList) :
     /\ successList[k].depot = depot
     /\ successList[k].releaseOrderID = roIDOf(item)

FailedRecords(depot, item) ==
  {k \in 1..Len(failedFile.data) :
     /\ failedFile.data[k].depot = depot
     /\ failedFile.data[k].releaseOrderID = roIDOf(item)}

InFailed(depot, item) == FailedRecords(depot, item) # {}

HasOutcome(depot, item) == InSuccess(depot, item) \/ InFailed(depot, item)

\* The state of the Session Orchestrator's machine at a position (the
\* context counts as open once its page exists).
Phase(p) ==
  CASE p \in {"processDepot", "goto"} -> "ContextOpen"
    [] p = "login" -> "LoggedIn"
    [] p \in {"items", "roAction", "roRecord"} -> "ProcessingItems"
    [] p = "logout" -> "LoggingOut"
    [] OTHER -> "Idle"

\* What no step of the depot loop touches: the cycle's inputs and the
\* state outside the loop.
UNCHANGED_inputs ==
  /\ UNCHANGED <<testDataArr, accounts>>
  /\ UNCHANGED <<fetchVars, mainVars, popupVars, apiVars, auxVars>>
UNCHANGED_item ==
  UNCHANGED <<ii, ai, actionFailed, errorReason, cur, attempted, loginSeen>>
\* The locals of processDepot and processReleaseOrder once the depot is left.
LeaveDepot ==
  /\ ii' = 0 /\ ai' = 0 /\ actionFailed' = FALSE /\ errorReason' = ""
  /\ cur' = NoItem /\ err' = ""
  /\ loginSeen' = <<>>
  /\ UNCHANGED attempted
UNCHANGED_ledger == UNCHANGED <<successList, successFile, failedFile, summary, groupedFile>>
UNCHANGED_env == UNCHANGED <<browserUp, closedIn>>

(***************************************************************************)
(* processAutomation: fetch, group, initialise the ledger.                 *)
(***************************************************************************)
\* A variant of the start of the cycle that goes on with the success list
\* and the failed ledger as they are.
StartCycleKeepOutcomes(fault) ==
  /\ pc = "start"
  /\ IF ~testDataArr.has \/ Len(testDataArr.data) = 0
     THEN /\ pc' = "returned"
          /\ UNCHANGED <<grouped, groupedFile, successFile, failedFile, di, ioFailed>>
     ELSE /\ grouped' = groupByDepot(testDataArr.data)
          /\ groupedFile' = TRUE
          /\ successFile' = EmptyFile
          /\ di' = 1
          /\ pc' = "forDepot"
          /\ UNCHANGED <<failedFile, ioFailed>>
  /\ UNCHANGED successList
  /\ UNCHANGED <<summary, ctxOpen, surface, visited, pageOps, aborted, recon, err>>
  /\ UNCHANGED_inputs /\ UNCHANGED_item /\ UNCHANGED_env

\* A variant of the start of the cycle without the test for an empty list.
StartCycleNoEmptyCheck(fault) ==
  /\ pc = "start"
  /\ IF ~testDataArr.has
     THEN /\ pc' = "returned"
          /\ UNCHANGED <<grouped, groupedFile, successFile, failedFile, di, ioFailed>>
     ELSE /\ grouped' = groupByDepot(testDataArr.data)
          /\ groupedFile' = TRUE
          /\ successFile' = EmptyFile
          /\ failedFile' = EmptyFile
          /\ di' = 1
          /\ pc' = "forDepot"
          /\ UNCHANGED ioFailed
  /\ successList' = <<>>
  /\ UNCHANGED <<summary, ctxOpen, surface, visited, pageOps, aborted, recon, err>>
  /\ UNCHANGED_inputs /\ UNCHANGED_item /\ UNCHANGED_env

StartCycle(fault) ==
  /\ pc = "start"
  /\ IF ~testDataArr.has \/ Len(testDataArr.data) = 0
     THEN /\ pc' = "returned"
          /\ UNCHANGED <<grouped, groupedFile, successFile, failedFile, di, ioFailed>>
     ELSE IF fault
     THEN \* saveGroupedDataToFile / initResultFiles reject: nothing catches
          /\ pc' = "rejected"
          /\ ioFailed' = TRUE
          /\ UNCHANGED <<grouped, groupedFile, successFile, failedFile, di>>
     ELSE /\ grouped' = groupByDepot(testDataArr.data)
          /\ groupedFile' = TRUE
          /\ successFile' = EmptyFile
          /\ failedFile' = EmptyFile
          /\ di' = 1
          /\ pc' = "forDepot"
          /\ UNCHANGED ioFailed
  /\ successList' = <<>>
  /\ UNCHANGED <<summary, ctxOpen, surface, visited, pageOps, aborted, recon, err>>
  /\ UNCHANGED_inputs /\ UNCHANGED_item /\ UNCHANGED_env

\* for (const depot in grouped): browser.newContext(...)
NewContext ==
  /\ pc = "forDepot"
  /\ IF di > Len(grouped.keys)
     THEN /\ pc' = "afterLoop"
          /\ UNCHANGED <<ctxOpen, surface>>
     ELSE IF ~browserUp
     THEN \* newContext rejects outside the try: the cycle ends with it
          /\ pc' = "rejected"
          /\ UNCHANGED <<ctxOpen, surface>>
     ELSE /\ ctxOpen' = ctxOpen \cup {di}
          /\ surface' = "open"
          /\ pc' = "newPage"
  /\ UNCHANGED <<grouped, di, err, visited, pageOps, aborted, recon, ioFailed>>
  /\ UNCHANGED_inputs /\ UNCHANGED_item /\ UNCHANGED_ledger /\ UNCHANGED_env

\* const page = await context.newPage(): outside the try statement, so a
\* rejection (the context was closed underneath, or the engine fails to
\* create the page) leaves processAutomation with the context not closed.
NewPage ==
  /\ pc = "newPage"
  /\ IF surface = "open"
     THEN pc' \in {"processDepot", "rejected"}
     ELSE pc' = "rejected"
  /\ UNCHANGED <<grouped, di, err, ctxOpen, surface, visited, pageOps, aborted, recon, ioFailed>>
  /\ UNCHANGED_inputs /\ UNCHANGED_item /\ UNCHANGED_ledger /\ UNCHANGED_env

(***************************************************************************)
(* processDepot.                                                           *)
(***************************************************************************)
HasAccount(depot) == depot \in accounts

\* Entry of processDepot: the account lookup and the missing-account branch.
ProcessDepotEntry(fault) ==
  /\ pc = "processDepot"
  /\ visited' = Append(visited, di)
  /\ IF ~HasAccount(depotKey)
     THEN /\ failedFile' = appendAllFailed(failedFile,
                              NoAccountRecords(depotKey, depotItems), fault)
          /\ ioFailed' = (ioFailed \/ fault)
          /\ pc' = "return"
     ELSE /\ pc' = "goto"
          /\ UNCHANGED <<failedFile, ioFailed>>
  /\ UNCHANGED <<grouped, di, err, ctxOpen, surface, pageOps, aborted, recon>>
  /\ UNCHANGED <<successList, successFile, summary, groupedFile>>
  /\ UNCHANGED_inputs /\ UNCHANGED_item /\ UNCHANGED_env

\* page.goto(siteConfig.url); page.waitForLoadState('networkidle')
Goto ==
  /\ pc = "goto"
  /\ pageOps' = pageOps \cup {di}
  /\ IF surface = "closed"
     THEN pc' = "catch" /\ err' = TargetClosedMsg /\ ai' = ai
     ELSE \/ pc' = "login" /\ ai' = NextAction("login", 1) /\ err' = err
          \/ pc' = "catch" /\ err' = NavigationMsg /\ ai' = ai
  /\ UNCHANGED <<grouped, di, ctxOpen, surface, visited, aborted, recon, ioFailed>>
  /\ UNCHANGED <<ii, actionFailed, errorReason, cur, attempted, loginSeen>>
  /\ UNCHANGED_inputs /\ UNCHANGED_ledger /\ UNCHANGED_env

\* A variant of the login step in which an error or warning popup ends the
\* login with an exception.
LoginStepAbortOnPopup ==
  /\ pc = "login"
  /\ IF ai > Len(SiteActions)
     THEN /\ pc' = "items" /\ ii' = 1 /\ ai' = ai /\ err' = err /\ pageOps' = pageOps
          /\ UNCHANGED loginSeen
     ELSE /\ pageOps' = pageOps \cup {di}
          /\ ii' = ii
          /\ IF surface = "closed"
             THEN /\ \E m \in ClosedThrows : pc' = "catch" /\ err' = m /\ ai' = ai
                  /\ UNCHANGED loginSeen
             ELSE \/ \E visible \in PopupStates :
                       /\ loginSeen' = Append(loginSeen,
                              [a |-> ai, checkpopup |-> checkAndHandlePopup(visible)])
                       /\ IF checkAndHandlePopup(visible) \in {"error", "warning"}
                          THEN pc' = "catch" /\ ai' = ai /\ err' = "Login failed"
                          ELSE pc' = "login" /\ ai' = NextAction("login", ai + 1) /\ err' = err
                  \/ /\ \E m \in OpenThrows : pc' = "catch" /\ err' = m /\ ai' = ai
                     /\ UNCHANGED loginSeen
  /\ UNCHANGED <<grouped, di, ctxOpen, surface, visited, aborted, recon, ioFailed>>
  /\ UNCHANGED <<actionFailed, errorReason, cur, attempted>>
  /\ UNCHANGED_inputs /\ UNCHANGED_ledger /\ UNCHANGED_env

\* processLogin: one login action, its delay and the popup check, whose
\* result is not looked at. An exception of executeAction leaves processLogin.
LoginStep ==
  /\ pc = "login"
  /\ IF ai > Len(SiteActions)
     THEN /\ pc' = "items" /\ ii' = 1 /\ ai' = ai /\ err' = err /\ pageOps' = pageOps
          /\ UNCHANGED loginSeen
     ELSE /\ pageOps' = pageOps \cup {di}
          /\ ii' = ii
          /\ IF surface = "closed"
             THEN /\ \E m \in ClosedThrows : pc' = "catch" /\ err' = m /\ ai' = ai
                  /\ UNCHANGED loginSeen
             ELSE \/ \E visible \in PopupStates :
                       /\ loginSeen' = Append(loginSeen,
                              [a |-> ai, checkpopup |-> checkAndHandlePopup(visible)])
                       /\ pc' = "login" /\ ai' = NextAction("login", ai + 1) /\ err' = err
                  \/ /\ \E m \in OpenThrows : pc' = "catch" /\ err' = m /\ ai' = ai
                     /\ UNCHANGED loginSeen
  /\ UNCHANGED <<grouped, di, ctxOpen, surface, visited, aborted, recon, ioFailed>>
  /\ UNCHANGED <<actionFailed, errorReason, cur, attempted>>
  /\ UNCHANGED_inputs /\ UNCHANGED_ledger /\ UNCHANGED_env

\* A variant of the item loop that ends at the first failed item.
ItemLoopStopOnFailure ==
  /\ pc = "items"
  /\ IF ii > Len(depotItems) \/ (ii > 1 /\ InFailed(depotKey, depotItems[ii - 1]))
     THEN /\ pc' = "logout"
          /\ UNCHANGED <<ai, actionFailed, errorReason, cur, attempted>>
     ELSE /\ pc' = "roAction"
          /\ ai' = NextAction("roData", 1)
          /\ actionFailed' = FALSE
          /\ errorReason' = ""
          /\ attempted' = Append(attempted, <<di, ii>>)
          /\ cur' = [d |-> di, i |-> ii, ran |-> <<>>, verdict |-> "none", at |-> 0, msg |-> ""]
  /\ UNCHANGED <<grouped, di, ii, err, ctxOpen, surface, visited, pageOps, aborted, recon, ioFailed,
                 loginSeen>>
  /\ UNCHANGED_inputs /\ UNCHANGED_ledger /\ UNCHANGED_env

\* for (const item of grouped[depot]): the call of processReleaseOrder and
\* the initialisation of its locals.
ItemLoop ==
  /\ pc = "items"
  /\ IF ii > Len(depotItems)
     THEN /\ pc' = "logout"
          /\ UNCHANGED <<ai, actionFailed, errorReason, cur, attempted>>
     ELSE /\ pc' = "roAction"
          /\ ai' = NextAction("roData", 1)
          /\ actionFailed' = FALSE
          /\ errorReason' = ""
          /\ attempted' = Append(attempted, <<di, ii>>)
          /\ cur' = [d |-> di, i |-> ii, ran |-> <<>>, verdict |-> "none", at |-> 0, msg |-> ""]
  /\ UNCHANGED <<grouped, di, ii, err, ctxOpen, surface, visited, pageOps, aborted, recon, ioFailed,
                 loginSeen>>
  /\ UNCHANGED_inputs /\ UNCHANGED_ledger /\ UNCHANGED_env

\* A variant in which only an 'error' popup fails the item.
ActionOutcomeErrorOnly(thrown, checkpopup) ==
  IF thrown # ""
  THEN [failed |-> TRUE, reason |-> ExceptionReason(thrown), stop |-> TRUE]
  ELSE IF checkpopup = "error"
  THEN [failed |-> TRUE, reason |-> PopupReason(checkpopup), stop |-> TRUE]
  ELSE [failed |-> FALSE, reason |-> "", stop |-> FALSE]

\* What one pass of processReleaseOrder's loop body does to the locals:
\* thrown is the message of executeAction's exception ("" when it returns),
\* checkpopup the popup classification after it.
ActionOutcome(thrown, checkpopup) ==
  IF thrown # ""
  THEN [failed |-> TRUE, reason |-> ExceptionReason(thrown), stop |-> TRUE]
  ELSE IF checkpopup \in {"error", "warning"}
  THEN [failed |-> TRUE, reason |-> PopupReason(checkpopup), stop |-> TRUE]
  ELSE [failed |-> FALSE, reason |-> "", stop |-> FALSE]

RoActionDo(thrown, visible, message) ==
  LET checkpopup == IF thrown # "" THEN "none" ELSE checkAndHandlePopup(visible)
      o == ActionOutcome(thrown, checkpopup)
      bad == thrown # "" \/ checkpopup \in {"error", "warning"}
  IN /\ actionFailed' = (actionFailed \/ o.failed)
     /\ errorReason' = IF o.failed THEN o.reason ELSE errorReason
     /\ cur' = IF bad /\ cur.verdict = "none"
               THEN [cur EXCEPT !.ran = Append(@, ai),
                                !.verdict = IF thrown # "" THEN "exception" ELSE checkpopup,
                                !.at = ai,
                                !.msg = IF thrown # "" THEN thrown ELSE message]
               ELSE [cur EXCEPT !.ran = Append(@, ai)]
     /\ IF o.stop THEN pc' = "roRecord" /\ ai' = ai
        ELSE pc' = "roAction" /\ ai' = NextAction("roData", ai + 1)

\* processReleaseOrder: one per-item action inside its try/catch.
RoAction ==
  /\ pc = "roAction"
  /\ IF ai > Len(SiteActions)
     THEN /\ pc' = "roRecord"
          /\ UNCHANGED <<ai, actionFailed, errorReason, cur, pageOps>>
     ELSE /\ pageOps' = pageOps \cup {di}
          /\ IF surface = "closed"
             THEN \E m \in ClosedThrows : RoActionDo(m, {}, "")
             ELSE \/ \E visible \in PopupStates, message \in PopupMessages :
                       RoActionDo("", visible, message)
                  \/ \E m \in OpenThrows : RoActionDo(m, {}, "")
  /\ UNCHANGED <<grouped, di, ii, err, ctxOpen, surface, visited, aborted, recon, ioFailed, attempted,
                 loginSeen>>
  /\ UNCHANGED_inputs /\ UNCHANGED_ledger /\ UNCHANGED_env

\* A variant that keeps the success list free of repeated release-order
\* numbers.
RecordOutcomeDedup(list, file, depot, item, failed, reason, fault) ==
  IF failed
  THEN [list |-> list,
        file |-> appendFailedToFile(file, FailedItem(depot, item, reason), fault)]
  ELSE IF \E k \in 1..Len(list) : list[k].releaseOrderNumber = roNumberOf(item)
  THEN [list |-> list, file |-> file]
  ELSE [list |-> Append(list, SuccessItem(depot, item)), file |-> file]

\* processReleaseOrder: the outcome of the item after its actions.
RecordOutcome(list, file, depot, item, failed, reason, fault) ==
  IF failed
  THEN [list |-> list,
        file |-> appendFailedToFile(file, FailedItem(depot, item, reason), fault)]
  ELSE [list |-> Append(list, SuccessItem(depot, item)), file |-> file]

RoRecord(fault) ==
  /\ pc = "roRecord"
  /\ LET r == RecordOutcome(successList, failedFile, depotKey, depotItems[ii],
                            actionFailed, errorReason, fault)
     IN /\ successList' = r.list
        /\ failedFile' = r.file
  /\ ioFailed' = (ioFailed \/ (actionFailed /\ fault))
  /\ ii' = ii + 1
  /\ pc' = "items"
  /\ ai' = 0 /\ actionFailed' = FALSE /\ errorReason' = ""
  /\ UNCHANGED <<grouped, di, cur, attempted, err,
                 ctxOpen, surface, visited, pageOps, aborted, recon, loginSeen>>
  /\ UNCHANGED <<successFile, summary, groupedFile>>
  /\ UNCHANGED_inputs /\ UNCHANGED_env

\* waitForTimeout(1000), the logout click, waitForTimeout(1000)
Logout ==
  /\ pc = "logout"
  /\ pageOps' = pageOps \cup {di}
  /\ IF surface = "closed"
     THEN pc' = "catch" /\ err' = TargetClosedMsg
     ELSE \/ pc' = "return" /\ err' = err
          \/ \E m \in OpenThrows : pc' = "catch" /\ err' = m
  /\ UNCHANGED <<grouped, di, ctxOpen, surface, visited, aborted, recon, ioFailed>>
  /\ UNCHANGED_inputs /\ UNCHANGED_item /\ UNCHANGED_ledger /\ UNCHANGED_env

(***************************************************************************)
(* processAutomation: the exits of a depot's try statement.                *)
(***************************************************************************)
\* The indexes of the depot's items that have no outcome.
Undetermined(depot, items) ==
  {k \in 1..Len(items) : ~HasOutcome(depot, items[k])}

\* A variant of the depot's exit whose finally does not close the context.
DepotReturnKeepContext ==
  /\ pc = "return"
  /\ surface' = "none"
  /\ di' = di + 1
  /\ pc' = "forDepot"
  /\ LeaveDepot
  /\ UNCHANGED <<grouped, ctxOpen, visited, pageOps, aborted, recon, ioFailed>>
  /\ UNCHANGED_inputs /\ UNCHANGED_ledger /\ UNCHANGED_env

\* processDepot returned: finally { context.close() }, next depot.
DepotReturn ==
  /\ pc = "return"
  /\ ctxOpen' = ctxOpen \ {di}
  /\ surface' = "none"
  /\ di' = di + 1
  /\ pc' = "forDepot"
  /\ LeaveDepot
  /\ UNCHANGED <<grouped, visited, pageOps, aborted, recon, ioFailed>>
  /\ UNCHANGED_inputs /\ UNCHANGED_ledger /\ UNCHANGED_env

\* A variant of the surface-closed catch that goes on with the next depot
\* instead of leaving the loop.
CatchClosedContinue(fault) ==
  /\ pc = "catch"
  /\ IsClosedError(err)
  /\ ctxOpen' = ctxOpen \ {di}
  /\ surface' = "none"
  /\ successFile' = saveSuccessToFile(successList)
  /\ failedFile' = markRemainingAsFailed(depotKey, depotItems, successList,
                                          failedFile, fault)
  /\ recon' = [d |-> di, before |-> <<>>, added |-> <<>>]
  /\ aborted' = di
  /\ di' = di + 1
  /\ pc' = "forDepot"
  /\ LeaveDepot
  /\ UNCHANGED <<grouped, visited, pageOps, ioFailed>>
  /\ UNCHANGED <<successList, summary, groupedFile>>
  /\ UNCHANGED_inputs /\ UNCHANGED_env

\* catch, surface closed: save the successes, reconcile, close, break.
CatchClosed(fault) ==
  /\ pc = "catch"
  /\ IsClosedError(err)
  /\ ctxOpen' = ctxOpen \ {di}
  /\ surface' = "none"
  /\ IF fault
     THEN \* saveSuccessToFile rejects inside the catch: finally, then the
          \* exception leaves processAutomation
          /\ pc' = "rejected"
          /\ ioFailed' = TRUE
          /\ UNCHANGED <<successFile, failedFile, aborted, recon>>
     ELSE /\ successFile' = saveSuccessToFile(successList)
          /\ failedFile' = markRemainingAsFailed(depotKey, depotItems, successList,
                                                  failedFile, fault)
          /\ recon' = [d |-> di,
                       before |-> SeqMap(roIDOf,
                                   SelectSeq(depotItems,
                                     LAMBDA item : ~HasOutcome(depotKey, item))),
                       added |-> SeqMap(LAMBDA r : r.releaseOrderID,
                                   SubSeq(failedFile'.data, Len(failedFile.data) + 1,
                                          Len(failedFile'.data)))]
          /\ aborted' = di
          /\ pc' = "afterLoop"
          /\ UNCHANGED ioFailed
  /\ LeaveDepot
  /\ UNCHANGED <<grouped, di, visited, pageOps>>
  /\ UNCHANGED <<successList, summary, groupedFile>>
  /\ UNCHANGED_inputs /\ UNCHANGED_env

\* catch, any other exception: a failed record for every item of the
\* depot, finally { context.close() }, next depot.
CatchOther(fault) ==
  /\ pc = "catch"
  /\ ~IsClosedError(err)
  /\ failedFile' = appendAllFailed(failedFile,
                      DepotErrorRecords(depotKey, depotItems, err), fault)
  /\ ioFailed' = (ioFailed \/ fault)
  /\ ctxOpen' = ctxOpen \ {di}
  /\ surface' = "none"
  /\ di' = di + 1
  /\ pc' = "forDepot"
  /\ LeaveDepot
  /\ UNCHANGED <<grouped, visited, pageOps, aborted, recon>>
  /\ UNCHANGED <<successList, successFile, summary, groupedFile>>
  /\ UNCHANGED_inputs /\ UNCHANGED_env

\* After the loop: saveSuccessToFile and printResultSummary, neither of
\* which catches an I/O failure.
EndCycle(fault) ==
  /\ pc = "afterLoop"
  /\ IF fault
     THEN /\ pc' = "rejected"
          /\ ioFailed' = TRUE
          /\ UNCHANGED <<successFile, summary>>
     ELSE /\ successFile' = saveSuccessToFile(successList)
          /\ summary' = [printed |-> TRUE, success |-> Len(successList),
                         failed |-> failedFile.total,
                         total |-> Len(successList) + failedFile.total]
          /\ pc' = "done"
          /\ UNCHANGED ioFailed
  /\ UNCHANGED <<grouped, di, err, ctxOpen, surface, visited, pageOps, aborted, recon>>
  /\ UNCHANGED <<successList, failedFile, groupedFile>>
  /\ UNCHANGED_inputs /\ UNCHANGED_item /\ UNCHANGED_env

(***************************************************************************)
(* Environment: the page or context of the depot, or the whole browser, is *)
(* closed underneath the session.                                          *)
(***************************************************************************)
\* The positions at which the session next touches the page: a closure is
\* seen by the program at the next page operation.
InSession == pc \in {"newPage", "goto", "login", "roAction", "logout"}

CloseSurface ==
  /\ InSession
  /\ surface = "open"
  /\ surface' = "closed"
  /\ \E b \in BOOLEAN : browserUp' = b
  /\ closedIn' = [phase |-> Phase(pc), d |-> di,
                  undet |-> Undetermined(depotKey, depotItems)]
  /\ UNCHANGED <<grouped, pc, di, err, ctxOpen, visited, pageOps, aborted, recon,
                 ioFailed>>
  /\ UNCHANGED_inputs /\ UNCHANGED_item /\ UNCHANGED_ledger

Next ==
  \/ StartCycle(FALSE)
  \/ NewContext
  \/ NewPage
  \/ ProcessDepotEntry(FALSE)
  \/ Goto
  \/ LoginStep
  \/ ItemLoop
  \/ RoAction
  \/ RoRecord(FALSE)
  \/ Logout
  \/ DepotReturn
  \/ CatchClosed(FALSE)
  \/ CatchOther(FALSE)
  \/ EndCycle(FALSE)
  \/ CloseSurface

Spec == Init /\ [][Next]_vars

(***************************************************************************)
(* A later cycle: processAutomation is called again after a cycle that     *)
(* recorded one success and one failure for work items the API no longer   *)
(* delivers (their IDs are not among the IDs of the new data).             *)
(***************************************************************************)
EarlierID == MaxItems + 7
EarlierSuccesses ==
  <<SuccessItem("D1", normalizeDataItem(RawItem(EarlierID, "D1", "RO1")))>>
EarlierFailures ==
  <<FailedItem("D2", normalizeDataItem(RawItem(EarlierID + 1, "D2", "RO1")),
               PopupReason("error"))>>

InitLater ==
  /\ FetchIdle
  /\ MainIdle
  /\ PopupIdle
  /\ ApiIdle
  /\ AuxIdle
  /\ testDataArr \in {[has |-> FALSE, data |-> <<>>]}
                       \cup {[has |-> TRUE, data |-> a] : a \in DataArrays}
  /\ accounts \in SUBSET Depots
  /\ grouped = groupByDepot(<<RawItem(EarlierID, "D1", "RO1"),
                              RawItem(EarlierID + 1, "D2", "RO1")>>)
  /\ groupedFile = TRUE
  /\ successList = EarlierSuccesses
  /\ successFile = saveSuccessToFile(EarlierSuccesses)
  /\ failedFile = [exists |-> TRUE, total |-> 1, data |-> EarlierFailures]
  /\ summary = [printed |-> TRUE, success |-> 1, failed |-> 1, total |-> 2]
  /\ pc = "start"
  /\ di = 0
  /\ ii = 0
  /\ ai = 0
  /\ actionFailed = FALSE
  /\ errorReason = ""
  /\ err = ""
  /\ ctxOpen = {}
  /\ surface = "none"
  /\ browserUp = TRUE
  /\ ioFailed = FALSE
  /\ visited = <<>>
  /\ attempted = <<>>
  /\ cur = NoItem
  /\ pageOps = {}
  /\ aborted = 0
  /\ closedIn = NotClosed
  /\ recon = NoRecon
  /\ loginSeen = <<>>

SpecLater == InitLater /\ [][Next]_vars

(***************************************************************************)
(* The same cycle in an environment where an operation on the result files *)
(* (readJson, writeJson) may fail: fault says whether the file operations  *)
(* of the step fail.                                                       *)
(***************************************************************************)
NextIO ==
  \/ \E fault \in BOOLEAN : StartCycle(fault)
  \/ NewContext
  \/ NewPage
  \/ \E fault \in BOOLEAN : ProcessDepotEntry(fault)
  \/ Goto
  \/ LoginStep
  \/ ItemLoop
  \/ RoAction
  \/ \E fault \in BOOLEAN : RoRecord(fault)
  \/ Logout
  \/ DepotReturn
  \/ \E fault \in BOOLEAN : CatchClosed(fault)
  \/ \E fault \in BOOLEAN : CatchOther(fault)
  \/ \E fault \in BOOLEAN : EndCycle(fault)
  \/ CloseSurface

SpecIO == Init /\ [][NextIO]_vars

(***************************************************************************)
(* fetchDataWithRetry on its own: the API client is a stub that returns    *)
(* apiResponses[k] on its k-th call (getReleaseOrderData never throws: it  *)
(* returns the response body, or null on any failure).                     *)
(***************************************************************************)
\* The bodies the API client can return: null, a body without data, a body
\* whose data is null, a body whose data is an array (possibly empty).
Responses ==
  {Null, Body(Undef), Body(Null), Body(Arr(<<>>)),
   Body(Arr(<<RawItem(1, "D1", "RO1")>>))}

\* The cycle is not running.
CycleRest ==
  /\ accounts = {}
  /\ grouped = NoGroups
  /\ groupedFile = FALSE
  /\ successList = <<>>
  /\ successFile = NoFile
  /\ failedFile = NoFile
  /\ summary = NoSummary
  /\ di = 0 /\ ii = 0 /\ ai = 0
  /\ actionFailed = FALSE
  /\ errorReason = ""
  /\ err = ""
  /\ ctxOpen = {}
  /\ surface = "none"
  /\ browserUp = TRUE
  /\ ioFailed = FALSE
  /\ visited = <<>>
  /\ attempted = <<>>
  /\ cur = NoItem
  /\ pageOps = {}
  /\ aborted = 0
  /\ closedIn = NotClosed
  /\ recon = NoRecon
  /\ loginSeen = <<>>

CycleIdle ==
  /\ testDataArr = [has |-> FALSE, data |-> <<>>]
  /\ pc = "idle"
  /\ CycleRest

InitFetch ==
  /\ CycleIdle
  /\ MainIdle
  /\ PopupIdle
  /\ ApiIdle
  /\ AuxIdle
  /\ maxRetries \in 0..MaxAttempts
  /\ apiResponses \in [1..maxRetries -> Responses]
  /\ attempt = 1
  /\ fetched = Null
  /\ fpc = "loop"
  /\ calls = 0
  /\ delays = 0

\* testDataArr && testDataArr.data
HasData(r) == Truthy(r) /\ Truthy(r.data)

\* A variant of the attempt that goes on to the next attempt after a
\* response with data instead of leaving the loop.
FetchAttemptNoBreak ==
  /\ fpc = "loop"
  /\ attempt <= maxRetries
  /\ fetched' = apiResponses[attempt]
  /\ calls' = calls + 1
  /\ IF attempt < maxRetries
     THEN fpc' = "delay" /\ attempt' = attempt
     ELSE fpc' = "loop" /\ attempt' = attempt + 1
  /\ UNCHANGED <<apiResponses, maxRetries, delays>>
  /\ UNCHANGED <<cycleVars, mainVars, popupVars, apiVars, auxVars>>

\* One pass of the loop up to its delay: the call, the test of the
\* response, break or the test whether a delay follows.
FetchAttempt ==
  /\ fpc = "loop"
  /\ attempt <= maxRetries
  /\ fetched' = apiResponses[attempt]
  /\ calls' = calls + 1
  /\ IF HasData(fetched')
     THEN fpc' = "returned" /\ attempt' = attempt
     ELSE IF attempt < maxRetries
     THEN fpc' = "delay" /\ attempt' = attempt
     ELSE fpc' = "loop" /\ attempt' = attempt + 1
  /\ UNCHANGED <<apiResponses, maxRetries, delays>>
  /\ UNCHANGED <<cycleVars, mainVars, popupVars, apiVars, auxVars>>

\* await new Promise(resolve => setTimeout(resolve, 10000)); attempt++
FetchDelay ==
  /\ fpc = "delay"
  /\ delays' = delays + 1
  /\ attempt' = attempt + 1
  /\ fpc' = "loop"
  /\ UNCHANGED <<apiResponses, maxRetries, fetched, calls>>
  /\ UNCHANGED <<cycleVars, mainVars, popupVars, apiVars, auxVars>>

\* The loop has ended without break: return testDataArr.
FetchReturn ==
  /\ fpc = "loop"
  /\ attempt > maxRetries
  /\ fpc' = "returned"
  /\ UNCHANGED <<apiResponses, maxRetries, attempt, fetched, calls, delays>>
  /\ UNCHANGED <<cycleVars, mainVars, popupVars, apiVars, auxVars>>

NextFetch ==
  \/ FetchAttempt
  \/ FetchDelay
  \/ FetchReturn

SpecFetch == InitFetch /\ [][NextFetch]_vars

(***************************************************************************)
(* The Data Grouper on its own: groupByDepot (and with it                  *)
(* normalizeDataItem) applied to a list of raw records whose fields come   *)
(* wrapped ({v: value}), plain, or not at all.                             *)
(***************************************************************************)
\* The DEPOT field of a raw record: absent, empty, wrapped or plain.
RawDepots ==
  {Undef, Wrap(Str("")), Wrap(Str("D1")), Wrap(Str("D2")), Str("D1")}

\* The releaseOrderNumber field of a raw record.
RawNumbers == {Undef, Str("RO1"), Wrap(Str("RO1")), Wrap(Null)}

RawLists ==
  UNION {{[k \in 1..n |-> [DEPOT |-> ds[k], ID |-> Wrap(Num(k)),
                            releaseOrderNumber |-> rs[k]]] :
            ds \in [1..n -> RawDepots], rs \in [1..n -> RawNumbers]} :
         n \in 0..MaxList}

InitGroup ==
  /\ testDataArr \in {[has |-> TRUE, data |-> a] : a \in RawLists}
  /\ pc = "group"
  /\ CycleRest
  /\ FetchIdle
  /\ MainIdle
  /\ PopupIdle
  /\ ApiIdle
  /\ AuxIdle

\* const grouped = system.groupByDepot(testDataArr.data)
Group ==
  /\ pc = "group"
  /\ grouped' = groupByDepot(testDataArr.data)
  /\ pc' = "grouped"
  /\ UNCHANGED <<di, err, ctxOpen, surface, visited, pageOps, aborted, recon, ioFailed>>
  /\ UNCHANGED_inputs /\ UNCHANGED_item /\ UNCHANGED_ledger /\ UNCHANGED_env

NextGroup == Group

SpecGroup == InitGroup /\ [][NextGroup]_vars

(***************************************************************************)
(* The Popup Classifier on its own: after an action the page shows any     *)
(* combination of its three popups (each absent from the page, present but *)
(* hidden, or displayed as a block), or the page is gone; then             *)
(* checkAndHandlePopup runs.                                               *)
(***************************************************************************)
InitPopup ==
  /\ CycleIdle
  /\ FetchIdle
  /\ MainIdle
  /\ ApiIdle
  /\ AuxIdle
  /\ popups = [k \in PopupKinds |-> "hidden"]
  /\ ppc = "act"
  /\ verdict = "unchecked"
  /\ dismissed = {}

\* The popups whose element exists with display 'block'.
Visible == {k \in PopupKinds : popups[k] = "block"}

\* An action on the page, after which the site shows its popups; or the
\* page is closed.
PageAct ==
  /\ ppc = "act"
  /\ \/ popups' \in [PopupKinds -> {"absent", "hidden", "block"}]
     \/ popups' = [k \in PopupKinds |-> "gone"]
  /\ ppc' = "check"
  /\ UNCHANGED <<verdict, dismissed>>
  /\ UNCHANGED <<cycleVars, fetchVars, mainVars, apiVars, auxVars>>

\* checkAndHandlePopup(page): on a closed page page.$ throws and the catch
\* returns null; otherwise the first visible popup is reported and its
\* close button clicked, a failure of the click being ignored.  The page
\* may also go away while the popups are being looked at, which the catch
\* turns into null as well.
CheckPopup ==
  /\ ppc = "check"
  /\ IF \E k \in PopupKinds : popups[k] = "gone"
     THEN verdict' = "none" /\ dismissed' = {} /\ UNCHANGED popups
     ELSE \/ /\ verdict' = checkAndHandlePopup(Visible)
             /\ \E clicked \in BOOLEAN :
                  IF verdict' # "none" /\ clicked
                  THEN /\ dismissed' = {verdict'}
                       /\ popups' = [popups EXCEPT ![verdict'] = "hidden"]
                  ELSE dismissed' = {} /\ UNCHANGED popups
          \/ /\ popups' = [k \in PopupKinds |-> "gone"]
             /\ verdict' = "none"
             /\ dismissed' = {}
  /\ ppc' = "act"
  /\ UNCHANGED <<cycleVars, fetchVars, mainVars, apiVars, auxVars>>

NextPopup ==
  \/ PageAct
  \/ CheckPopup

SpecPopup == InitPopup /\ [][NextPopup]_vars

(***************************************************************************)
(* fetchDataWithRetry with the API client itself: getReleaseOrderData      *)
(* against a server that answers a data request with a body, with an       *)
(* authentication failure (401/403) or with another failure, and a token   *)
(* request with a token or a failure.                                      *)
(***************************************************************************)
InitApi ==
  /\ CycleIdle
  /\ MainIdle
  /\ PopupIdle
  /\ AuxIdle
  /\ maxRetries \in 1..MaxAttempts
  /\ apiResponses = <<>>
  /\ attempt = 1
  /\ fetched = Null
  /\ fpc = "loop"
  /\ calls = 0
  /\ delays = 0
  /\ token = FALSE
  /\ apc = "idle"
  /\ depth = 0
  /\ requests = 0
  /\ outcome = "none"

\* testDataArr = await apiService.getReleaseOrderData()
ApiCall ==
  /\ fpc = "loop"
  /\ attempt <= maxRetries
  /\ fpc' = "call"
  /\ apc' = "start"
  /\ depth' = 0
  /\ requests' = 0
  /\ outcome' = "none"
  /\ UNCHANGED <<apiResponses, maxRetries, attempt, fetched, calls, delays, token>>
  /\ UNCHANGED <<cycleVars, mainVars, popupVars, auxVars>>

\* getReleaseOrderData returns r to fetchDataWithRetry, which tests it,
\* leaves the loop, or goes on to the delay or to the next attempt.
ApiReturn(r) ==
  /\ apc' = "idle"
  /\ fetched' = r
  /\ calls' = calls + 1
  /\ IF HasData(r)
     THEN fpc' = "returned" /\ attempt' = attempt
     ELSE IF attempt < maxRetries
     THEN fpc' = "delay" /\ attempt' = attempt
     ELSE fpc' = "loop" /\ attempt' = attempt + 1
  /\ UNCHANGED <<apiResponses, maxRetries, delays>>

\* A variant that goes on to the data request when getToken has failed.
ApiEnsureTokenIgnoreFailure ==
  /\ apc = "start"
  /\ IF token
     THEN apc' = "request" /\ UNCHANGED <<token, fetchVars, outcome>>
     ELSE \/ token' = TRUE /\ apc' = "request" /\ UNCHANGED <<fetchVars, outcome>>
          \/ UNCHANGED token /\ outcome' = "tokenFailed" /\ apc' = "request"
             /\ UNCHANGED fetchVars
  /\ UNCHANGED <<depth, requests>>
  /\ UNCHANGED <<cycleVars, mainVars, popupVars, auxVars>>

\* if (!this.token || !this.reqtime): getToken(); a failure throws 'Failed
\* to get token', which the catch turns into null.
ApiEnsureToken ==
  /\ apc = "start"
  /\ IF token
     THEN apc' = "request" /\ UNCHANGED <<token, fetchVars, outcome>>
     ELSE \/ token' = TRUE /\ apc' = "request" /\ UNCHANGED <<fetchVars, outcome>>
          \/ UNCHANGED token /\ outcome' = "tokenFailed" /\ ApiReturn(Null)
  /\ UNCHANGED <<depth, requests>>
  /\ UNCHANGED <<cycleVars, mainVars, popupVars, auxVars>>

\* The data request: a truthy body is returned, a falsy one gives null, an
\* authentication failure goes to the token refresh, any other failure
\* gives null.
ApiRequest ==
  /\ apc = "request"
  /\ requests' = requests + 1
  /\ \/ \E r \in Responses \ {Null} : outcome' = "body" /\ ApiReturn(r)
     \/ \E o \in {"empty", "failed"} : outcome' = o /\ ApiReturn(Null)
     \/ outcome' = "auth" /\ apc' = "refresh" /\ UNCHANGED fetchVars
  /\ UNCHANGED <<token, depth>>
  /\ UNCHANGED <<cycleVars, mainVars, popupVars, auxVars>>

\* catch, status 401/403: getToken(); on success
\* return await this.getReleaseOrderData(), otherwise null.
ApiRefresh ==
  /\ apc = "refresh"
  /\ \/ /\ depth < MaxDepth
        /\ token' = TRUE
        /\ depth' = depth + 1
        /\ apc' = "request"
        /\ UNCHANGED <<fetchVars, outcome>>
     \/ UNCHANGED <<token, depth>> /\ outcome' = "refreshFailed" /\ ApiReturn(Null)
  /\ UNCHANGED requests
  /\ UNCHANGED <<cycleVars, mainVars, popupVars, auxVars>>

NextApi ==
  \/ ApiCall
  \/ ApiEnsureToken
  \/ ApiRequest
  \/ ApiRefresh
  \/ FetchDelay
  \/ FetchReturn

SpecApi == InitApi /\ [][NextApi]_vars

(***************************************************************************)
(* ActionExecutor.executeAction, case 'click' with firstOnly and           *)
(* matchField: page.$$(selector) has returned a non-empty list of          *)
(* elements; each has, under matchField.selector, no field element, a      *)
(* field element whose lookup throws, or a field element with a text.      *)
(* Texts are sequences of characters.                                      *)
(***************************************************************************)
FieldTexts == {<<>>, <<"1">>, <<"2">>, <<"1", "2">>, <<" ", "2", " ">>}

ElementKinds ==
  {[field |-> "absent", text |-> <<>>], [field |-> "throws", text |-> <<>>]}
    \cup {[field |-> "text", text |-> t] : t \in FieldTexts}

\* data[matchField.value]: absent, null, a string or a number.
MatchValues ==
  {Undef, Null, Str(<<>>), Str(<<"2">>), Str(<<"1", "2">>), Num(2), Num(12)}

DigitChar == <<"1", "2", "3", "4", "5", "6", "7", "8", "9">>

\* Number.prototype.toString of a non-negative integer.
RECURSIVE Digits(_)
Digits(n) ==
  IF n < 10 THEN <<IF n = 0 THEN "0" ELSE DigitChar[n]>>
  ELSE Digits(n \div 10) \o <<IF n % 10 = 0 THEN "0" ELSE DigitChar[n % 10]>>

\* val.toString() of a string or a number.
toString(val) == IF val.t = "n" THEN Digits(val.x) ELSE val.x

\* String.prototype.trim
RECURSIVE trim(_)
trim(text) ==
  IF Len(text) = 0 THEN text
  ELSE IF Head(text) = " " THEN trim(Tail(text))
  ELSE IF text[Len(text)] = " " THEN trim(SubSeq(text, 1, Len(text) - 1))
  ELSE text

\* String.prototype.includes
includes(text, sub) ==
  \E k \in 0..(Len(text) - Len(sub)) : SubSeq(text, k + 1, k + Len(sub)) = sub

\* The test of the loop over the elements: the field element exists, its
\* text is truthy and, trimmed, includes the match value. An exception of
\* element.$ is caught and the element skipped.
Qualifies(element, value) ==
  /\ element.field = "text"
  /\ Len(element.text) > 0
  /\ includes(trim(element.text), value)

\* let targetElement = elements[0]; the loop replaces it by the first
\* element that qualifies.
targetElement(list, value) ==
  IF \E k \in 1..Len(list) : Qualifies(list[k], value)
  THEN CHOOSE k \in 1..Len(list) :
         /\ Qualifies(list[k], value)
         /\ \A j \in 1..(k - 1) : ~Qualifies(list[j], value)
  ELSE 1

InitClick ==
  /\ CycleIdle
  /\ FetchIdle
  /\ MainIdle
  /\ PopupIdle
  /\ ApiIdle
  /\ PaceIdle
  /\ WatchIdle
  /\ \E n \in 1..MaxElements : elements \in [1..n -> ElementKinds]
  /\ matchValue \in MatchValues
  /\ cpc = "click"
  /\ target = 0

\* const matchValue = data[matchField.value].toString() throws a TypeError
\* for an absent or null value, which executeAction's catch logs and throws
\* again; otherwise the target element is clicked.
Click ==
  /\ cpc = "click"
  /\ IF matchValue \in {Undef, Null}
     THEN cpc' = "thrown" /\ target' = 0
     ELSE cpc' = "clicked" /\ target' = targetElement(elements, toString(matchValue))
  /\ UNCHANGED <<elements, matchValue>>
  /\ UNCHANGED <<cycleVars, fetchVars, mainVars, popupVars, apiVars, paceVars, watchVars>>

NextClick == Click

SpecClick == InitClick /\ [][NextClick]_vars

(***************************************************************************)
(* The pause after an action: in the loops of the orchestrator             *)
(* (processLogin, processReleaseOrder) and in ActionExecutor.executeActions *)
(* (called by processSite).                                                *)
(***************************************************************************)
\* action.delay: absent, or a number of milliseconds.
ActionDelays == {Undef, Num(0), Num(500), Num(2000)}

\* getRandomDelay: Math.floor(Math.random() * 2000) + 1000, for
\* Math.random() = r / RandomSteps.
getRandomDelay(r) == ((r * 2000) \div RandomSteps) + 1000

InitPace ==
  /\ CycleIdle
  /\ FetchIdle
  /\ MainIdle
  /\ PopupIdle
  /\ ApiIdle
  /\ ClickIdle
  /\ WatchIdle
  /\ pacer \in {"login", "roData", "executeActions"}
  /\ actionDelay \in ActionDelays
  /\ waited = -1

\* processLogin, processReleaseOrder:
\* if (action.delay) await page.waitForTimeout(action.delay)
OrchestratorPause ==
  /\ pacer \in {"login", "roData"}
  /\ waited = -1
  /\ waited' = IF Truthy(actionDelay) THEN actionDelay.x ELSE 0
  /\ UNCHANGED <<pacer, actionDelay>>
  /\ UNCHANGED <<cycleVars, fetchVars, mainVars, popupVars, apiVars, clickVars, watchVars>>

\* executeActions: if (action.delay) waitForTimeout(action.delay)
\* else waitForTimeout(this.getRandomDelay())
ExecuteActionsPause ==
  /\ pacer = "executeActions"
  /\ waited = -1
  /\ IF Truthy(actionDelay)
     THEN waited' = actionDelay.x
     ELSE \E r \in 0..(RandomSteps - 1) : waited' = getRandomDelay(r)
  /\ UNCHANGED <<pacer, actionDelay>>
  /\ UNCHANGED <<cycleVars, fetchVars, mainVars, popupVars, apiVars, clickVars, watchVars>>

NextPace ==
  \/ OrchestratorPause
  \/ ExecuteActionsPause

SpecPace == InitPace /\ [][NextPace]_vars

(***************************************************************************)
(* The file-change entry: every 'change' event of the watcher starts an    *)
(* execution of DataWatcher.handleDataChange, which reads the data file    *)
(* and calls the registered callback, processRealtimeData. Executions      *)
(* interleave at their awaits.                                             *)
(***************************************************************************)
\* config.sites, in order.
SiteList == <<"site1", "site2">>

Execution(p, k) == [p |-> p, k |-> k]

InitWatch ==
  /\ CycleIdle
  /\ FetchIdle
  /\ MainIdle
  /\ PopupIdle
  /\ ApiIdle
  /\ ClickIdle
  /\ PaceIdle
  /\ isRunning = FALSE
  /\ rpc = [e \in 1..MaxEvents |-> Execution("idle", 0)]
  /\ processed = [e \in 1..MaxEvents |-> <<>>]

\* watcher.on('change'): handleDataChange() starts and awaits fs.readJson.
Change(e) ==
  /\ rpc[e].p = "idle"
  /\ rpc' = [rpc EXCEPT ![e] = Execution("read", 0)]
  /\ UNCHANGED <<isRunning, processed>>
  /\ UNCHANGED <<cycleVars, fetchVars, mainVars, popupVars, apiVars, clickVars, paceVars>>

\* readJson has settled: a failure is logged by handleDataChange;
\* otherwise the callback runs processRealtimeData(data) up to its first
\* await: if (!this.isRunning) { this.isRunning = true; ... }
HandleDataChange(e) ==
  /\ rpc[e].p = "read"
  /\ \/ /\ rpc' = [rpc EXCEPT ![e] = Execution("readFailed", 0)]
        /\ UNCHANGED isRunning
     \/ IF isRunning
        THEN /\ rpc' = [rpc EXCEPT ![e] = Execution("dropped", 0)]
             /\ UNCHANGED isRunning
        ELSE /\ isRunning' = TRUE
             /\ rpc' = [rpc EXCEPT ![e] = Execution("running", 1)]
  /\ UNCHANGED processed
  /\ UNCHANGED <<cycleVars, fetchVars, mainVars, popupVars, apiVars, clickVars, paceVars>>

\* A variant of the loop over the sites in which an exception leaves
\* isRunning as it is.
ProcessSitesNoFinally(e) ==
  /\ rpc[e].p = "running"
  /\ IF rpc[e].k > Len(SiteList)
     THEN /\ isRunning' = FALSE
          /\ rpc' = [rpc EXCEPT ![e] = Execution("done", 0)]
          /\ UNCHANGED processed
     ELSE \/ /\ rpc' = [rpc EXCEPT ![e] = Execution("running", rpc[e].k + 1)]
             /\ UNCHANGED <<isRunning, processed>>
          \/ /\ processed' = [processed EXCEPT ![e] = Append(@, SiteList[rpc[e].k])]
             /\ rpc' = [rpc EXCEPT ![e] = Execution("running", rpc[e].k + 1)]
             /\ UNCHANGED isRunning
          \/ /\ rpc' = [rpc EXCEPT ![e] = Execution("caught", 0)]
             /\ UNCHANGED <<isRunning, processed>>
  /\ UNCHANGED <<cycleVars, fetchVars, mainVars, popupVars, apiVars, clickVars, paceVars>>

\* for (const siteConfig of config.sites): shouldProcessSite is false, or
\* processSite is awaited (it catches its own exceptions), or
\* shouldProcessSite throws, which the catch logs; after the loop and after
\* the catch: finally { this.isRunning = false }
ProcessSites(e) ==
  /\ rpc[e].p = "running"
  /\ IF rpc[e].k > Len(SiteList)
     THEN /\ isRunning' = FALSE
          /\ rpc' = [rpc EXCEPT ![e] = Execution("done", 0)]
          /\ UNCHANGED processed
     ELSE \/ /\ rpc' = [rpc EXCEPT ![e] = Execution("running", rpc[e].k + 1)]
             /\ UNCHANGED <<isRunning, processed>>
          \/ /\ processed' = [processed EXCEPT ![e] = Append(@, SiteList[rpc[e].k])]
             /\ rpc' = [rpc EXCEPT ![e] = Execution("running", rpc[e].k + 1)]
             /\ UNCHANGED isRunning
          \/ /\ isRunning' = FALSE
             /\ rpc' = [rpc EXCEPT ![e] = Execution("caught", 0)]
             /\ UNCHANGED processed
  /\ UNCHANGED <<cycleVars, fetchVars, mainVars, popupVars, apiVars, clickVars, paceVars>>

NextWatch ==
  \/ \E e \in 1..MaxEvents : Change(e)
  \/ \E e \in 1..MaxEvents : HandleDataChange(e)
  \/ \E e \in 1..MaxEvents : ProcessSites(e)

SpecWatch == InitWatch /\ [][NextWatch]_vars

(***************************************************************************)
(* main(): initialisation, the first cycle, setupAutoRun's two intervals   *)
(* and the SIGINT handler. A cycle is the execution of processAutomation   *)
(* modelled above, here with its await points only: the fetch, the depot   *)
(* loop with the depot's context, and its end (returned: no data; done;    *)
(* rejected: an exception left processAutomation).                         *)
(***************************************************************************)
IntervalMinutes == 15
CountdownStep == 180
Sites == {"site1", "site2"}

Alive == exitCode = "none"
NewCycle == [pc |-> "fetch", sig |-> sig]
InFlight(c) == cycles[c].pc \in {"fetch", "loop", "depot"}
SiteContext(site) == <<"site", site>>
DepotContext(c) == <<"depot", c>>

InitMain ==
  /\ CycleIdle
  /\ FetchIdle
  /\ PopupIdle
  /\ ApiIdle
  /\ AuxIdle
  /\ mpc = "initialize"
  /\ exitCode = "none"
  /\ cycles = <<>>
  /\ mainInterval = FALSE
  /\ countdownInterval = FALSE
  /\ timeRemaining = 0
  /\ sig = "none"
  /\ browser = "null"
  /\ contexts = {}
  /\ openContexts = {}
  /\ watching = FALSE

\* system.initialize() and what follows it: process.exit(1) when the
\* browser does not launch, otherwise the first processAutomation() starts.
MainInitialize ==
  /\ Alive
  /\ mpc = "initialize"
  /\ \/ /\ browser' = "up"
        /\ watching' = TRUE
        /\ mpc' = "firstCycle"
        /\ cycles' = Append(cycles, NewCycle)
        /\ UNCHANGED exitCode
     \/ /\ mpc' = "exited"
        /\ exitCode' = "1"
        /\ UNCHANGED <<browser, watching, cycles>>
  /\ UNCHANGED <<timers, sig, contexts, openContexts>>
  /\ UNCHANGED <<cycleVars, fetchVars, popupVars, apiVars, auxVars>>

\* What runs when cycle c has ended with p. The first cycle is awaited by
\* main(), which then calls setupAutoRun(); an exception of it rejects
\* main() (main().catch(console.error)). A later cycle is awaited inside
\* the interval callback's try/catch.
AfterCycle(c, p) ==
  IF c = 1
  THEN IF p = "rejected"
       THEN mpc' = "rejected" /\ UNCHANGED timers
       ELSE /\ mpc' = "armed"
            /\ mainInterval' = TRUE
            /\ countdownInterval' = TRUE
            /\ timeRemaining' = IntervalMinutes * 60
  ELSE UNCHANGED <<mpc, timers>>

\* fetchDataWithRetry, the two early returns, grouping and the result
\* files (whose write failure nothing catches).
CycleFetch(c) ==
  /\ Alive
  /\ c \in DOMAIN cycles
  /\ cycles[c].pc = "fetch"
  /\ \E p \in {"loop", "returned", "rejected"} :
       /\ cycles' = [cycles EXCEPT ![c].pc = p]
       /\ IF p = "loop" THEN UNCHANGED <<mpc, timers>> ELSE AfterCycle(c, p)
  /\ UNCHANGED <<exitCode, sig, browser, contexts, openContexts, watching>>
  /\ UNCHANGED <<cycleVars, fetchVars, popupVars, apiVars, auxVars>>

\* browser.newContext() and context.newPage() for the next depot, both
\* outside the try statement.
CycleNewContext(c) ==
  /\ Alive
  /\ c \in DOMAIN cycles
  /\ cycles[c].pc = "loop"
  /\ IF browser # "up"
     THEN /\ cycles' = [cycles EXCEPT ![c].pc = "rejected"]
          /\ AfterCycle(c, "rejected")
          /\ UNCHANGED openContexts
     ELSE /\ openContexts' = openContexts \cup {DepotContext(c)}
          /\ \/ /\ cycles' = [cycles EXCEPT ![c].pc = "depot"]
                /\ UNCHANGED <<mpc, timers>>
             \/ /\ cycles' = [cycles EXCEPT ![c].pc = "rejected"]
                /\ AfterCycle(c, "rejected")
  /\ UNCHANGED <<exitCode, sig, browser, contexts, watching>>
  /\ UNCHANGED <<cycleVars, fetchVars, popupVars, apiVars, auxVars>>

\* processDepot has ended (return or catch): the context is closed.
CycleDepotEnd(c) ==
  /\ Alive
  /\ c \in DOMAIN cycles
  /\ cycles[c].pc = "depot"
  /\ openContexts' = openContexts \ {DepotContext(c)}
  /\ cycles' = [cycles EXCEPT ![c].pc = "loop"]
  /\ UNCHANGED <<mpc, exitCode, timers, sig, browser, contexts, watching>>
  /\ UNCHANGED <<cycleVars, fetchVars, popupVars, apiVars, auxVars>>

\* After the loop: saveSuccessToFile, printResultSummary.
CycleFinish(c) ==
  /\ Alive
  /\ c \in DOMAIN cycles
  /\ cycles[c].pc = "loop"
  /\ \E p \in {"done", "rejected"} :
       /\ cycles' = [cycles EXCEPT ![c].pc = p]
       /\ AfterCycle(c, p)
  /\ UNCHANGED <<exitCode, sig, browser, contexts, openContexts, watching>>
  /\ UNCHANGED <<cycleVars, fetchVars, popupVars, apiVars, auxVars>>

\* The callback of the main interval: reset the countdown, await
\* processAutomation().
Tick ==
  /\ Alive
  /\ mainInterval
  /\ Len(cycles) < MaxCycles
  /\ timeRemaining' = IntervalMinutes * 60
  /\ cycles' = Append(cycles, NewCycle)
  /\ UNCHANGED <<mpc, exitCode, mainInterval, countdownInterval, sig, browser,
                 contexts, openContexts, watching>>
  /\ UNCHANGED <<cycleVars, fetchVars, popupVars, apiVars, auxVars>>

\* A variant of the countdown that stays at zero instead of starting again.
CountdownTickNoReset ==
  /\ Alive
  /\ countdownInterval
  /\ timeRemaining' = IF timeRemaining - CountdownStep > 0
                      THEN timeRemaining - CountdownStep
                      ELSE 0
  /\ UNCHANGED <<mpc, exitCode, cycles, mainInterval, countdownInterval, sig,
                 browser, contexts, openContexts, watching>>
  /\ UNCHANGED <<cycleVars, fetchVars, popupVars, apiVars, auxVars>>

\* The callback of the countdown interval.
CountdownTick ==
  /\ Alive
  /\ countdownInterval
  /\ timeRemaining' = IF timeRemaining - CountdownStep > 0
                      THEN timeRemaining - CountdownStep
                      ELSE IntervalMinutes * 60
  /\ UNCHANGED <<mpc, exitCode, cycles, mainInterval, countdownInterval, sig,
                 browser, contexts, openContexts, watching>>
  /\ UNCHANGED <<cycleVars, fetchVars, popupVars, apiVars, auxVars>>

\* A change of the data file reaches processSite: browserManager.getPage
\* opens and tracks a context for a site that has none.
getPage(siteName) ==
  /\ Alive
  /\ watching
  /\ browser = "up"
  /\ siteName \notin contexts
  /\ contexts' = contexts \cup {siteName}
  /\ openContexts' = openContexts \cup {SiteContext(siteName)}
  /\ UNCHANGED <<mpc, exitCode, cycles, timers, sig, browser, watching>>
  /\ UNCHANGED <<cycleVars, fetchVars, popupVars, apiVars, auxVars>>

\* The visible browser is closed or dies: its contexts go with it.
BrowserGone ==
  /\ Alive
  /\ browser = "up"
  /\ browser' = "gone"
  /\ openContexts' = {}
  /\ UNCHANGED <<mpc, exitCode, cycles, timers, sig, contexts, watching>>
  /\ UNCHANGED <<cycleVars, fetchVars, popupVars, apiVars, auxVars>>

\* SIGINT: apiService.stopAutoUpdate() (its updateInterval was never set:
\* main does not call startAutoUpdate; the two intervals of setupAutoRun
\* are not cleared), then system.shutdown(): dataWatcher.stopWatching()
\* and BrowserManager.close up to its first pending operation. With no
\* browser launched yet nothing is pending and process.exit(0) follows at
\* once.
Sigint ==
  /\ Alive
  /\ sig = "none"
  /\ watching' = FALSE
  /\ IF browser = "null"
     THEN sig' = "exit" /\ exitCode' = "0"
     ELSE sig' = "closing" /\ UNCHANGED exitCode
  /\ UNCHANGED <<mpc, cycles, timers, browser, contexts, openContexts>>
  /\ UNCHANGED <<cycleVars, fetchVars, popupVars, apiVars, auxVars>>

\* BrowserManager.close: await context.close() of a tracked context; when
\* it rejects, the catch logs the error, close() returns and the handler
\* goes on to process.exit(0).
CloseTrackedContext(siteName) ==
  /\ Alive
  /\ sig = "closing"
  /\ siteName \in contexts
  /\ SiteContext(siteName) \in openContexts
  /\ \/ /\ openContexts' = openContexts \ {SiteContext(siteName)}
        /\ UNCHANGED <<sig, exitCode>>
     \/ /\ sig' = "exit"
        /\ exitCode' = "0"
        /\ UNCHANGED openContexts
  /\ UNCHANGED <<mpc, cycles, timers, browser, contexts, watching>>
  /\ UNCHANGED <<cycleVars, fetchVars, popupVars, apiVars, auxVars>>

\* BrowserManager.close after the loop: contexts.clear(), await
\* browser.close() (which closes every context of the browser), and then
\* process.exit(0) at the end of the SIGINT handler.
CloseBrowser ==
  /\ Alive
  /\ sig = "closing"
  /\ \A siteName \in contexts : SiteContext(siteName) \notin openContexts
  /\ contexts' = {}
  /\ IF browser = "up"
     THEN browser' = "closed" /\ openContexts' = {}
     ELSE UNCHANGED <<browser, openContexts>>
  /\ sig' = "exit"
  /\ exitCode' = "0"
  /\ UNCHANGED <<mpc, cycles, timers, watching>>
  /\ UNCHANGED <<cycleVars, fetchVars, popupVars, apiVars, auxVars>>

NextMain ==
  \/ MainInitialize
  \/ \E c \in 1..MaxCycles : CycleFetch(c)
  \/ \E c \in 1..MaxCycles : CycleNewContext(c)
  \/ \E c \in 1..MaxCycles : CycleDepotEnd(c)
  \/ \E c \in 1..MaxCycles : CycleFinish(c)
  \/ Tick
  \/ CountdownTick
  \/ \E siteName \in Sites : getPage(siteName)
  \/ BrowserGone
  \/ Sigint
  \/ \E siteName \in Sites : CloseTrackedContext(siteName)
  \/ CloseBrowser

SpecMain == InitMain /\ [][NextMain]_vars

(***************************************************************************)
(* Properties.                                                             *)
(***************************************************************************)
UpTo(n) == [k \in 1..n |-> k]
DepotIdx == 1..Len(grouped.keys)
ItemsOf(d) == grouped.items[grouped.keys[d]]
Range(f) == {f[k] : k \in DOMAIN f}

\* The item indexes of depot d processReleaseOrder was called for, in call order.
AttemptedIdx(d) ==
  LET a == SelectSeq(attempted, LAMBDA e : e[1] = d)
  IN [k \in 1..Len(a) |-> a[k][2]]

\* The indexes of the per-item actions up to and including index at.
RoDataUpTo(at) ==
  LET RECURSIVE from(_)
      from(j) == IF j > at THEN <<>>
                 ELSE IF SiteActions[j] = "roData" THEN <<j>> \o from(j + 1)
                 ELSE from(j + 1)
  IN from(1)

\* processReleaseOrder has just returned for the item cur describes.
JustRecorded == pc = "items" /\ cur.d = di /\ cur.i >= 1 /\ cur.i = ii - 1

SameItem(r, q) == r.depot = q.depot /\ r.releaseOrderID = q.releaseOrderID

\* C1: at every point of a cycle no WorkItem is both in the success list
\* and in the failed ledger.
CE_C1_NeverInBoth ==
  \A d \in DepotIdx : \A k \in 1..Len(ItemsOf(d)) :
     ~(InSuccess(grouped.keys[d], ItemsOf(d)[k]) /\ InFailed(grouped.keys[d], ItemsOf(d)[k]))

\* C2: when the cycle completes without a surface-closed abort and no
\* ledger I/O failed, every WorkItem of the grouped data is in the success
\* list or in the failed ledger.
C2_EveryItemHasOutcome ==
  (pc = "done" /\ aborted = 0 /\ ~ioFailed) =>
     \A d \in DepotIdx : \A k \in 1..Len(ItemsOf(d)) :
        HasOutcome(grouped.keys[d], ItemsOf(d)[k])

\* A completed cycle without abort or I/O failure whose data holds two
\* items with the same release-order number (here: both without one), one
\* of them a success.
W_C2_DoneWithSharedNumbers ==
  /\ pc = "done" /\ aborted = 0 /\ ~ioFailed
  /\ Len(successList) >= 1
  /\ \E d1 \in DepotIdx, d2 \in DepotIdx :
       \E k1 \in 1..Len(ItemsOf(d1)), k2 \in 1..Len(ItemsOf(d2)) :
          /\ <<d1, k1>> # <<d2, k2>>
          /\ roNumberOf(ItemsOf(d1)[k1]) = Str("N/A")
          /\ roNumberOf(ItemsOf(d2)[k2]) = Str("N/A")

\* C3: in a depot with an account whose login phase finished, every item
\* is attempted, in group order: while the item loop runs the attempted
\* items are exactly the items up to the current one, and the loop is left
\* (to the logout) only with all items attempted.
C3_EveryItemAttemptedInOrder ==
  \A d \in DepotIdx :
     LET a == AttemptedIdx(d)
     IN IF d = di /\ pc = "items" THEN a = UpTo(ii - 1)
        ELSE IF d = di /\ pc \in {"roAction", "roRecord"} THEN a = UpTo(ii)
        ELSE IF d = di /\ pc = "logout" THEN a = UpTo(Len(ItemsOf(d)))
        ELSE a = <<>> \/ a = UpTo(Len(ItemsOf(d)))

\* The second item of a depot is being attempted after the first one failed.
W_C3_NextItemAfterFailure ==
  /\ pc = "roAction" /\ ii = 2
  /\ InFailed(depotKey, depotItems[1])

\* C4 (as stated): after an 'error' or 'warning' popup the remaining
\* per-item actions are not executed, the item is not a success and has
\* exactly one failed record, whose reason is the popup's message text.
CE_C4_ReasonIsPopupMessage ==
  (JustRecorded /\ cur.verdict \in {"error", "warning"}) =>
     LET item == depotItems[cur.i]
     IN /\ cur.ran = RoDataUpTo(cur.at)
        /\ ~InSuccess(depotKey, item)
        /\ Cardinality(FailedRecords(depotKey, item)) = 1
        /\ \A k \in FailedRecords(depotKey, item) : failedFile.data[k].reason = cur.msg

\* C4 (amended): ... whose reason is the fixed text 'Popup <classification>
\* detected'; no per-item action runs for the item after the popup.
C4_PopupFailsItem ==
  /\ (pc = "roAction" /\ cur.d = di /\ cur.i = ii) => cur.verdict = "none"
  /\ (JustRecorded /\ cur.verdict \in {"error", "warning"}) =>
        LET item == depotItems[cur.i]
        IN /\ cur.ran = RoDataUpTo(cur.at)
           /\ ~InSuccess(depotKey, item)
           /\ Cardinality(FailedRecords(depotKey, item)) = 1
           /\ \A k \in FailedRecords(depotKey, item) :
                 failedFile.data[k].reason = PopupReason(cur.verdict)

\* A warning popup after the first of two per-item actions: the item has
\* been recorded and its second action did not run.
W_C4_WarningAtFirstAction ==
  /\ JustRecorded
  /\ cur.verdict = "warning"
  /\ cur.at < NextAction("roData", cur.at + 1)
  /\ NextAction("roData", cur.at + 1) <= Len(SiteActions)

\* C5: an exception of a per-item action stays inside the processing of
\* the item: the next position is the item's record, which appends exactly
\* one failed record for the item with the exception message as reason,
\* the item having no record before, and which leaves the success list and
\* the earlier failed records as they are.
C5_ExceptionFailsItemOnly ==
  [][/\ (pc = "roAction") => (pc' \in {"roAction", "roRecord"})
     /\ (pc = "roRecord" /\ cur.verdict = "exception") =>
          /\ pc' = "items"
          /\ ~HasOutcome(depotKey, depotItems[ii])
          /\ successList' = successList
          /\ failedFile'.data = Append(failedFile.data,
                                   FailedItem(depotKey, depotItems[ii], cur.msg))]_vars

\* An item was just recorded failed after an exception, with the outcome
\* of another item already recorded.
W_C5_ExceptionAfterOtherOutcome ==
  /\ JustRecorded
  /\ cur.verdict = "exception"
  /\ InFailed(depotKey, depotItems[cur.i])
  /\ Len(successList) + Len(failedFile.data) >= 2

\* C6: a surface closed in ContextOpen, LoggedIn or ProcessingItems takes
\* the session to Aborted: the items undetermined at the closure get no
\* outcome other than a failed record with the surface-closed reason, and
\* once the depot is left it was caught as surface-closed and all of them
\* are reconciled.
CE_C6_ClosureAborts ==
  closedIn.phase \in {"ContextOpen", "LoggedIn", "ProcessingItems"} =>
     LET key == grouped.keys[closedIn.d]
         items == ItemsOf(closedIn.d)
     IN /\ \A k \in closedIn.undet :
             /\ ~InSuccess(key, items[k])
             /\ \A r \in FailedRecords(key, items[k]) :
                   failedFile.data[r].reason = SurfaceClosedReason
        /\ (di > closedIn.d \/ pc \in {"afterLoop", "done"}) =>
             /\ aborted = closedIn.d
             /\ \A k \in closedIn.undet : InFailed(key, items[k])

\* C7: markRemainingAsFailed appends one record for exactly the items of
\* the aborted depot that had no outcome, and none for the others.
CE_C7_ReconcilesExactlyUndetermined ==
  recon.d # 0 => recon.added = recon.before

CE_C9_OnlyUndeterminedFailed ==
  \A k \in 1..Len(failedFile.data) :
     LET r == failedFile.data[k]
     IN r.reason \in {DepotErrorReason(m) : m \in OpenThrows \cup ClosedThrows \cup {NavigationMsg}} =>
          /\ \A j \in 1..Len(failedFile.data) : SameItem(failedFile.data[j], r) => j = k
          /\ \A j \in 1..Len(successList) : ~SameItem(successList[j], r)

\* C10: for a depot without an Account no page operation runs, and once
\* processDepot was called for it every item has exactly one failed
\* record, with the no-account reason, and is not a success.
C10_NoAccountDepot ==
  \A d \in DepotIdx :
     ~HasAccount(grouped.keys[d]) =>
        /\ d \notin pageOps
        /\ d \in Range(visited) =>
             \A k \in 1..Len(ItemsOf(d)) :
                LET item == ItemsOf(d)[k]
                IN /\ ~InSuccess(grouped.keys[d], item)
                   /\ Cardinality(FailedRecords(grouped.keys[d], item)) = 1
                   /\ \A r \in FailedRecords(grouped.keys[d], item) :
                         failedFile.data[r].reason = NoAccountReason

\* A completed cycle with a depot of two items that has no Account.
W_C10_NoAccountDepotDone ==
  /\ pc = "done"
  /\ \E d \in DepotIdx :
       /\ ~HasAccount(grouped.keys[d])
       /\ Len(ItemsOf(d)) >= 2
       /\ d \in Range(visited)

\* C11: for a depot with no Account no browsing context (and so no page)
\* is ever allocated.
CE_C11_NoContextWithoutAccount ==
  \A d \in ctxOpen : HasAccount(grouped.keys[d])

\* C12: no browsing context of a depot is open once the depot's iteration
\* has ended, however it ended (return, catch, or a rejected newPage).
CE_C12_ContextClosedOnEveryExit ==
  pc \in {"forDepot", "afterLoop", "done", "returned", "rejected"} => ctxOpen = {}

\* C14: depots are processed strictly serially: the only context that can
\* be open is the one of the depot being processed, and none is open when
\* the loop turns to the next depot.
C14_OneContextAtATime ==
  /\ ctxOpen \subseteq {di}
  /\ pc = "forDepot" => ctxOpen = {}

W_C14_SecondDepotContextOpen ==
  /\ di = 2 /\ ctxOpen = {2}
  /\ visited = <<1, 2>>
  /\ pc = "goto"

\* C15: whenever a depot's processing has ended, the success file holds
\* exactly the in-memory success list and its count.
CE_C15_SuccessFileAfterEveryDepot ==
  ((pc = "forDepot" /\ di > 1) \/ pc = "afterLoop")
     => successFile = saveSuccessToFile(successList)

\* The k-th response of the stub is a failure: null, or a body whose data
\* payload is missing or null.
FailedResponse(r) == r = Null \/ r.data \in {Undef, Null}

\* The first attempt whose response carries a non-null data payload
\* (0: every attempt fails).
FirstGood ==
  IF \A k \in 1..maxRetries : FailedResponse(apiResponses[k]) THEN 0
  ELSE CHOOSE k \in 1..maxRetries :
         /\ ~FailedResponse(apiResponses[k])
         /\ \A j \in 1..(k - 1) : FailedResponse(apiResponses[j])

\* C19: when the fetch fails on attempts 1..k-1 and returns a response with
\* a non-null data payload on attempt k <= maxRetries, fetchDataWithRetry
\* returns that response after exactly k calls and k-1 delays.
C19_ReturnsFirstGoodResponse ==
  (fpc = "returned" /\ FirstGood # 0)
     => /\ fetched = apiResponses[FirstGood]
        /\ calls = FirstGood
        /\ delays = FirstGood - 1

W_C19_ThirdAttemptSucceeds ==
  /\ fpc = "returned"
  /\ maxRetries = 3 /\ FirstGood = 3
  /\ apiResponses[3] = Body(Arr(<<>>))
  /\ delays = 2

\* C20: when every attempt fails (null, or a response without a data
\* payload), fetchDataWithRetry returns null after exactly maxRetries calls
\* and no delay follows the last attempt.
CE_C20_ReturnsNullWhenExhausted ==
  (fpc = "returned" /\ FirstGood = 0)
     => /\ fetched = Null
        /\ calls = maxRetries
        /\ delays = IF maxRetries = 0 THEN 0 ELSE maxRetries - 1

\* C13: at most one execution of processAutomation is in flight.
CE_C13_OneCycleInFlight ==
  Cardinality({c \in DOMAIN cycles : InFlight(c)}) <= 1

\* C16: however the first cycle ends (no data, done, or an exception), the
\* recurring interval is armed afterwards, as long as no interrupt arrived.
CE_C16_IntervalArmedAfterFirstCycle ==
  (Alive /\ sig = "none" /\ cycles # <<>> /\ ~InFlight(1)) => mainInterval

\* C17: no cycle is started by a timer tick once the SIGINT handler has
\* started.
CE_C17_NoCycleAfterSigint ==
  \A c \in DOMAIN cycles : c > 1 => cycles[c].sig = "none"

\* C18: when the process exits on SIGINT, the browser is closed and no
\* browsing context, tracked or per depot, is open.
CE_C18_AllClosedAtExit ==
  exitCode = "0" => (browser # "up" /\ openContexts = {})

NoData == ~testDataArr.has \/ Len(testDataArr.data) = 0
IsPrefix(a, b) == Len(a) <= Len(b) /\ SubSeq(b, 1, Len(a)) = a

\* C22: a cycle whose fetch yields no data or an empty list returns
\* normally without writing the grouped snapshot, creating result files or
\* opening a context; no other cycle returns that way.
C22_NoOpCycle ==
  /\ (pc # "start" /\ NoData) =>
        /\ pc = "returned"
        /\ groupedFile = FALSE /\ successFile = NoFile /\ failedFile = NoFile
        /\ grouped = NoGroups /\ ctxOpen = {} /\ pageOps = {} /\ visited = <<>>
        /\ ~summary.printed
  /\ pc = "returned" => NoData

W_C22_EmptyListReturned ==
  pc = "returned" /\ testDataArr.has /\ testDataArr.data = <<>>

\* C27: no failure of a ledger operation ends the cycle: from the catch
\* blocks and from the end of the loop, where saveSuccessToFile,
\* markRemainingAsFailed, appendFailedToFile and printResultSummary run,
\* the cycle is never left by an exception.
CE_C27_LedgerFailureNeverFatal ==
  [][(pc \in {"catch", "afterLoop"}) => (pc' # "rejected")]_vars

\* C28: appendFailedToFile writes the record also when the ledger cannot
\* be read: after a failed item is recorded the ledger has one entry more.
CE_C28_AppendSurvivesReadFailure ==
  [][(pc = "roRecord" /\ actionFailed)
       => (Len(failedFile'.data) = Len(failedFile.data) + 1)]_vars

\* C29: the failed ledger is append-only and its total is exact: every step
\* keeps the earlier entries in order, recording a failed item adds exactly
\* its record at the end, and total is the number of entries.
C29_AppendOnlyExactTotal ==
  [][/\ IsPrefix(failedFile.data, failedFile'.data)
     /\ failedFile'.total = Len(failedFile'.data)
     /\ (pc = "roRecord" /\ actionFailed) =>
           failedFile'.data = Append(failedFile.data,
                                FailedItem(depotKey, depotItems[ii], errorReason))]_vars

W_C29_SameItemTwice ==
  /\ failedFile.total = Len(failedFile.data)
  /\ \E k, j \in 1..Len(failedFile.data) :
        k < j /\ SameItem(failedFile.data[k], failedFile.data[j])

\* C30: a per-item action whose condition is falsy for the item is not
\* executed.
CE_C30_FalsyConditionSkips ==
  cur.d # 0 =>
    \A k \in 1..Len(cur.ran) : ~Gated(cur.ran[k], ItemsOf(cur.d)[cur.i])

\* The depot a raw record names: its DEPOT field, unwrapped.
DepotOf(raw) == IF raw.DEPOT.t = "w" THEN raw.DEPOT.v ELSE raw.DEPOT
HasDepot(raw) == DepotOf(raw).t = "s" /\ DepotOf(raw).x # ""
WithDepot(list) == SelectSeq(list, HasDepot)
FromDepot(list, key) ==
  SelectSeq(list, LAMBDA raw : HasDepot(raw) /\ DepotOf(raw).x = key)

C24_GroupsPartitionInOrder ==
  pc = "grouped" =>
    /\ Range(grouped.keys) = {DepotOf(raw).x : raw \in Range(WithDepot(testDataArr.data))}
    /\ Cardinality(Range(grouped.keys)) = Len(grouped.keys)
    /\ DOMAIN grouped.items = Range(grouped.keys)
    /\ \A key \in Range(grouped.keys) :
         grouped.items[key] = SeqMap(normalizeDataItem, FromDepot(testDataArr.data, key))

W_C24_InterleavedDepots ==
  /\ pc = "grouped"
  /\ Len(testDataArr.data) = 3
  /\ testDataArr.data[1].DEPOT = Wrap(Str("D1"))
  /\ testDataArr.data[2].DEPOT = Wrap(Str("D2"))
  /\ testDataArr.data[3].DEPOT = Str("D1")
  /\ Len(grouped.items["D1"]) = 2

CE_C21_RetriesOnceAfterAuthFailure ==
  requests <= 2

\* C26: checkAndHandlePopup reports the first visible popup in the order
\* success, error, warning, and null when none is visible; the only popup
\* it changes is the reported one, which it closes.  (On a page that is
\* still there after the check.)
C26_FirstVisiblePopup ==
  [][(ppc = "check" /\ \A g \in PopupKinds : popups'[g] # "gone") =>
       /\ verdict' = IF "success" \in Visible THEN "success"
                     ELSE IF "error" \in Visible THEN "error"
                     ELSE IF "warning" \in Visible THEN "warning"
                     ELSE "none"
       /\ \A k \in PopupKinds :
            popups'[k] # popups[k] =>
              (k = verdict' /\ popups[k] = "block" /\ popups'[k] = "hidden")
       /\ dismissed' \subseteq {verdict'} \cap PopupKinds]_vars

W_C26_SuccessBeforeError ==
  /\ ppc = "act"
  /\ verdict = "success"
  /\ dismissed = {"success"}
  /\ popups = [k \in PopupKinds |-> IF k = "success" THEN "hidden" ELSE "block"]

\* C31: the element clicked is the first whose field text contains the
\* string form of the match value; when none does, or the match value is
\* absent from the data, the first element is clicked.
CE_C31_FirstMatchOrFirstElement ==
  cpc # "click" =>
    /\ cpc = "clicked"
    /\ LET value == IF matchValue \in {Undef, Null} THEN <<"absent">>
                    ELSE toString(matchValue)
           Contains(k) == /\ elements[k].field = "text"
                          /\ includes(elements[k].text, value)
       IN IF \E k \in 1..Len(elements) : Contains(k)
          THEN Contains(target) /\ \A j \in 1..(target - 1) : ~Contains(j)
          ELSE target = 1

\* The indexes of the login-phase actions, in configuration order.
LoginActions ==
  SelectSeq(UpTo(Len(SiteActions)), LAMBDA j : SiteActions[j] = "login")

CE_C33_LogoutFailureKeepsOutcomes ==
  [][(pc = "catch" /\ ii > Len(depotItems)) =>
       UNCHANGED <<successList, failedFile>>]_vars

\* An outcome of the earlier cycle is in the success list or in the failed
\* ledger of the running cycle.
EarlierOutcomePresent ==
  \/ \E k \in 1..Len(successList) :
       successList[k].releaseOrderID \in {Num(EarlierID), Num(EarlierID + 1)}
  \/ \E k \in 1..Len(failedFile.data) :
       failedFile.data[k].releaseOrderID \in {Num(EarlierID), Num(EarlierID + 1)}

\* C34: at the start of the per-depot loop the success list is empty and
\* both result files hold total 0 and no entries; from then on no outcome
\* of the earlier cycle is in the success list or in the failed ledger.
C34_FreshOutcomesEachCycle ==
  /\ (pc = "forDepot" /\ di = 1) =>
        /\ successList = <<>>
        /\ successFile = EmptyFile
        /\ failedFile = EmptyFile
  /\ pc \notin {"start", "returned"} => ~EarlierOutcomePresent

W_C34_LaterCycleRecordsBoth ==
  /\ pc = "done"
  /\ Len(successList) = 1
  /\ failedFile.total = 1
  /\ Len(failedFile.data) = 1
  /\ successList[1].releaseOrderID = Num(1)
  /\ failedFile.data[1].releaseOrderID = Num(2)
  /\ summary = [printed |-> TRUE, success |-> 1, failed |-> 1, total |-> 2]

\* C35: the success list changes only by appending the item being processed,
\* after every per-item action has run for it in configuration order with
\* no exception and no error or warning verdict; no item is in it twice.
C35_SuccessOnlyAfterAllActions ==
  [][/\ IsPrefix(successList, successList')
     /\ successList' # successList =>
          /\ pc = "roRecord"
          /\ ~actionFailed
          /\ cur.d = di /\ cur.i = ii
          /\ cur.ran = RoDataUpTo(Len(SiteActions))
          /\ cur.verdict = "none"
          /\ successList' = Append(successList, SuccessItem(depotKey, depotItems[ii]))
          /\ ~InSuccess(depotKey, depotItems[ii])]_vars

W_C35_TwoSuccessesRecorded ==
  /\ JustRecorded
  /\ Len(successList) = 2
  /\ cur.ran = RoDataUpTo(Len(SiteActions))
  /\ Len(cur.ran) = 2

\* The number of WorkItems in the grouped data.
RECURSIVE GroupedCount(_)
GroupedCount(d) ==
  IF d > Len(grouped.keys) THEN 0 ELSE Len(ItemsOf(d)) + GroupedCount(d + 1)

\* C36: at the end of a cycle that was not cut short by a closed surface,
\* the summary's success count plus failed total ('Total processed') is
\* the number of WorkItems in the grouped data.
CE_C36_TotalsMatchInput ==
  (pc = "done" /\ aborted = 0) =>
    /\ summary.printed
    /\ summary.total = summary.success + summary.failed
    /\ summary.total = GroupedCount(1)

\* C37: a tick of the countdown (the remaining time changes while the
\* countdown is armed and no cycle starts) changes nothing but the
\* remaining time, which is then greater than 0 and at most one interval.
C37_CountdownOnlyCounts ==
  [][(countdownInterval /\ timeRemaining' # timeRemaining /\ Len(cycles') = Len(cycles)) =>
       /\ UNCHANGED <<cycleVars, cycles, mainInterval, countdownInterval, mpc,
                      exitCode, sig, browser, contexts, openContexts, watching>>
       /\ timeRemaining' > 0
       /\ timeRemaining' <= IntervalMinutes * 60
       /\ \/ timeRemaining' = timeRemaining - CountdownStep
          \/ timeRemaining' = IntervalMinutes * 60]_vars

W_C37_CountdownDuringCycle ==
  /\ timeRemaining = CountdownStep
  /\ Len(cycles) = 2
  /\ InFlight(2)

\* C38: after an action that the orchestrator runs, the pause is the
\* action's explicit delay, and without an explicit delay a delay d with
\* 1000 <= d < 3000 milliseconds.
CE_C38_PacingBetweenActions ==
  (waited # -1 /\ pacer \in {"login", "roData"}) =>
    IF actionDelay = Undef
    THEN 1000 <= waited /\ waited < 3000
    ELSE waited = actionDelay.x

\* The executions that are past the isRunning guard.
PastGuard == {e \in 1..MaxEvents : rpc[e].p = "running"}

\* C39: at most one execution of processRealtimeData is past the isRunning
\* guard; isRunning is true exactly while one is, so it is false again
\* after every execution, also one that ended with an exception; an
\* execution that meets the guard while another one is running is dropped
\* and processes no site.
C39_RealtimeEntryExclusive ==
  [][/\ Cardinality(PastGuard') <= 1
     /\ isRunning' <=> (PastGuard' # {})
     /\ \A e \in 1..MaxEvents :
          /\ rpc'[e].p \in {"idle", "read", "readFailed", "dropped"} =>
               processed'[e] = <<>>
          /\ (rpc[e].p = "read" /\ rpc'[e].p # "read" /\ isRunning) =>
               /\ rpc'[e].p \in {"dropped", "readFailed"}
               /\ UNCHANGED <<isRunning, processed>>
          /\ (rpc[e].p = "running" /\ rpc'[e].p \in {"done", "caught"}) =>
               ~isRunning']_vars

W_C39_DroppedWhileRunningAfterException ==
  /\ rpc[1].p = "caught"
  /\ rpc[2].p = "dropped"
  /\ rpc[3].p = "running"
  /\ processed[3] = <<"site1">>
  /\ isRunning

\* C40: a data request is sent only with a token; a call that finds no
\* token and fails to get one sends no data request and returns null; a
\* call ends with null when its data request has failed or has brought no
\* body (after an authentication failure: when the token refresh fails),
\* and with the body otherwise.
C40_NullOnEveryFailure ==
  [][/\ requests' > requests => token
     /\ (apc # "idle" /\ apc' = "idle") =>
          /\ outcome' \in {"body", "empty", "failed", "tokenFailed", "refreshFailed"}
          /\ outcome' = "tokenFailed" => (requests' = 0 /\ ~token')
          /\ outcome' # "body" => fetched' = Null
          /\ outcome' = "body" => (fetched' \in Responses \ {Null} /\ requests' >= 1)]_vars

W_C40_NoRequestWithoutToken ==
  /\ apc = "idle"
  /\ calls = 2
  /\ outcome = "tokenFailed"
  /\ requests = 0
  /\ fetched = Null
  /\ ~token
====
